---- MODULE Spec2Model ----
(***************************************************************************)
(* A model of python-json-socket: the framed JSON codec of JsonSocket      *)
(* (jsocket/jsocket_base.py) and the threaded servers built on it          *)
(* (jsocket/tserver.py).                                                   *)
(*                                                                         *)
(* Bytes are the integers 0..255, text is a sequence of Unicode code       *)
(* points, a 32-bit header field is a sequence of four bytes (big-endian). *)
(***************************************************************************)
EXTENDS Integers, Sequences, FiniteSets, TLC

(***************************************************************************)
(* JSON values.  Every value is a record of one shape, so that any two     *)
(* values can be compared: t is the kind, n the number (or 0/1 of a        *)
(* bool), s the code points of a string (or the lexeme of a float), items  *)
(* the elements of a list or the values of a dict, keys the dict's keys    *)
(* in insertion order.                                                     *)
(***************************************************************************)
JNull == [t |-> "null", n |-> 0, s |-> <<>>, items |-> <<>>, keys |-> <<>>]

JBool(b) == [t |-> "bool", n |-> IF b THEN 1 ELSE 0, s |-> <<>>, items |-> <<>>, keys |-> <<>>]

JInt(i) == [t |-> "int", n |-> i, s |-> <<>>, items |-> <<>>, keys |-> <<>>]

JFloat(lexeme) == [t |-> "float", n |-> 0, s |-> lexeme, items |-> <<>>, keys |-> <<>>]

JStr(cps) == [t |-> "str", n |-> 0, s |-> cps, items |-> <<>>, keys |-> <<>>]

JList(xs) == [t |-> "list", n |-> 0, s |-> <<>>, items |-> xs, keys |-> <<>>]

JDict(ks, xs) == [t |-> "dict", n |-> 0, s |-> <<>>, items |-> xs, keys |-> ks]

\* F applied to the value of x, x evaluated once ("x = ...; F(x)").
Bind(x, F(_)) == CHOOSE y \in {F(v) : v \in {x}} : TRUE

(***************************************************************************)
(* json.dumps(obj, ensure_ascii=False): the text, as code points.          *)
(***************************************************************************)
HexDigit(d) == IF d < 10 THEN 48 + d ELSE 87 + d

RECURSIVE NatDigits(_)
NatDigits(n) == IF n < 10 THEN <<48 + n>> ELSE NatDigits(n \div 10) \o <<48 + (n % 10)>>

IntDigits(n) == IF n < 0 THEN <<45>> \o NatDigits(0 - n) ELSE NatDigits(n)

\* json.encoder.ESCAPE_DCT with ensure_ascii=False: only the quote, the
\* backslash and the control characters are escaped.
\* A faulty EscapeChar, for RoundTrip to catch: nothing is escaped.
EscapeCharVerbatim(c) == <<c>>

EscapeChar(c) ==
    IF c = 34 THEN <<92, 34>>
    ELSE IF c = 92 THEN <<92, 92>>
    ELSE IF c = 10 THEN <<92, 110>>
    ELSE IF c = 13 THEN <<92, 114>>
    ELSE IF c = 9 THEN <<92, 116>>
    ELSE IF c = 8 THEN <<92, 98>>
    ELSE IF c = 12 THEN <<92, 102>>
    ELSE IF c < 32 THEN <<92, 117, 48, 48, HexDigit(c \div 16), HexDigit(c % 16)>>
    ELSE <<c>>

EscapeText(cps) ==
    LET esc[i \in 0..Len(cps)] == IF i = 0 THEN <<>> ELSE esc[i - 1] \o EscapeChar(cps[i])
    IN esc[Len(cps)]

DumpString(cps) == <<34>> \o EscapeText(cps) \o <<34>>

RECURSIVE dumps(_), DumpItems(_), DumpPairs(_, _)
dumps(v) ==
    IF v.t = "null" THEN <<110, 117, 108, 108>>
    ELSE IF v.t = "bool" THEN (IF v.n = 1 THEN <<116, 114, 117, 101>> ELSE <<102, 97, 108, 115, 101>>)
    ELSE IF v.t = "int" THEN IntDigits(v.n)
    ELSE IF v.t = "float" THEN v.s
    ELSE IF v.t = "str" THEN DumpString(v.s)
    ELSE IF v.t = "list" THEN <<91>> \o DumpItems(v.items) \o <<93>>
    ELSE <<123>> \o DumpPairs(v.keys, v.items) \o <<125>>

DumpItems(xs) ==
    IF xs = <<>> THEN <<>>
    ELSE IF Len(xs) = 1 THEN dumps(xs[1])
    ELSE dumps(xs[1]) \o <<44, 32>> \o DumpItems(Tail(xs))

DumpPairs(ks, xs) ==
    IF ks = <<>> THEN <<>>
    ELSE IF Len(ks) = 1 THEN DumpString(ks[1]) \o <<58, 32>> \o dumps(xs[1])
    ELSE DumpString(ks[1]) \o <<58, 32>> \o dumps(xs[1]) \o <<44, 32>> \o DumpPairs(Tail(ks), Tail(xs))

(***************************************************************************)
(* str.encode('utf-8') and bytes.decode('utf-8') (strict).                 *)
(***************************************************************************)
IsSurrogate(c) == c >= 55296 /\ c <= 57343

Utf8OfChar(c) ==
    IF c < 128 THEN <<c>>
    ELSE IF c < 2048 THEN <<192 + (c \div 64), 128 + (c % 64)>>
    ELSE IF c < 65536 THEN <<224 + (c \div 4096), 128 + ((c \div 64) % 64), 128 + (c % 64)>>
    ELSE <<240 + (c \div 262144), 128 + ((c \div 4096) % 64), 128 + ((c \div 64) % 64), 128 + (c % 64)>>

\* A text with a lone surrogate has no UTF-8 encoding (UnicodeEncodeError).
Utf8Encodable(cps) == \A i \in 1..Len(cps) : ~IsSurrogate(cps[i]) /\ cps[i] >= 0 /\ cps[i] <= 1114111

utf8_encode(cps) ==
    LET enc[i \in 0..Len(cps)] == IF i = 0 THEN <<>> ELSE enc[i - 1] \o Utf8OfChar(cps[i])
    IN enc[Len(cps)]

IsCont(b) == b >= 128 /\ b <= 191

\* bytes.decode('utf-8'): [ok, text].  dec[i] is the decoding of bs[i..].
utf8_decode(bs) ==
    LET bad == [ok |-> FALSE, text |-> <<>>]
        cont(i) == i <= Len(bs) /\ IsCont(bs[i])
        dec[i \in 1..(Len(bs) + 1)] ==
            IF i > Len(bs) THEN [ok |-> TRUE, text |-> <<>>]
            ELSE IF bs[i] < 128 THEN
                Bind(dec[i + 1], LAMBDA r : IF r.ok THEN [r EXCEPT !.text = <<bs[i]>> \o r.text] ELSE bad)
            ELSE IF bs[i] >= 194 /\ bs[i] <= 223 THEN
                IF cont(i + 1)
                THEN Bind(dec[i + 2], LAMBDA r :
                        IF r.ok THEN [r EXCEPT !.text = <<(bs[i] - 192) * 64 + (bs[i + 1] - 128)>> \o r.text]
                        ELSE bad)
                ELSE bad
            ELSE IF bs[i] >= 224 /\ bs[i] <= 239 THEN
                IF cont(i + 1) /\ cont(i + 2)
                THEN Bind((bs[i] - 224) * 4096 + (bs[i + 1] - 128) * 64 + (bs[i + 2] - 128), LAMBDA c :
                        IF c < 2048 \/ IsSurrogate(c) THEN bad
                        ELSE Bind(dec[i + 3], LAMBDA r :
                                IF r.ok THEN [r EXCEPT !.text = <<c>> \o r.text] ELSE bad))
                ELSE bad
            ELSE IF bs[i] >= 240 /\ bs[i] <= 244 THEN
                IF cont(i + 1) /\ cont(i + 2) /\ cont(i + 3)
                THEN Bind((bs[i] - 240) * 262144 + (bs[i + 1] - 128) * 4096
                          + (bs[i + 2] - 128) * 64 + (bs[i + 3] - 128), LAMBDA c :
                        IF c < 65536 \/ c > 1114111 THEN bad
                        ELSE Bind(dec[i + 4], LAMBDA r :
                                IF r.ok THEN [r EXCEPT !.text = <<c>> \o r.text] ELSE bad))
                ELSE bad
            ELSE bad
    IN dec[1]

(***************************************************************************)
(* json.loads(text): Python's json.decoder / json.scanner, strict mode.    *)
(* A scan result is [ok, val, pos]: pos is the index after the value.      *)
(***************************************************************************)
ScanFail == [ok |-> FALSE, val |-> JNull, pos |-> 0]

ScanOk(v, p) == [ok |-> TRUE, val |-> v, pos |-> p]

IsWs(c) == c = 32 \/ c = 9 \/ c = 10 \/ c = 13

IsDigit(c) == c >= 48 /\ c <= 57

RECURSIVE SkipWs(_, _)
SkipWs(s, i) == IF i <= Len(s) /\ IsWs(s[i]) THEN SkipWs(s, i + 1) ELSE i

RECURSIVE SkipDigits(_, _)
SkipDigits(s, i) == IF i <= Len(s) /\ IsDigit(s[i]) THEN SkipDigits(s, i + 1) ELSE i

\* s[i..i+Len(w)-1] = w
Matches(s, i, w) == i + Len(w) - 1 <= Len(s) /\ SubSeq(s, i, i + Len(w) - 1) = w

HexVal(c) ==
    IF c >= 48 /\ c <= 57 THEN c - 48
    ELSE IF c >= 97 /\ c <= 102 THEN c - 87
    ELSE IF c >= 65 /\ c <= 70 THEN c - 55
    ELSE 0 - 1

\* _decode_uXXXX: the four hex digits at s[i..i+3], or -1.
DecodeUXXXX(s, i) ==
    IF i + 3 <= Len(s) /\ \A k \in 0..3 : HexVal(s[i + k]) >= 0
    THEN ((HexVal(s[i]) * 16 + HexVal(s[i + 1])) * 16 + HexVal(s[i + 2])) * 16 + HexVal(s[i + 3])
    ELSE 0 - 1

\* json.decoder.BACKSLASH
Unescape(e) ==
    IF e = 34 THEN 34
    ELSE IF e = 92 THEN 92
    ELSE IF e = 47 THEN 47
    ELSE IF e = 98 THEN 8
    ELSE IF e = 102 THEN 12
    ELSE IF e = 110 THEN 10
    ELSE IF e = 114 THEN 13
    ELSE IF e = 116 THEN 9
    ELSE 0 - 1

\* The \uXXXX escape at s[i..i+5], a surrogate pair taking twelve characters:
\* [cp, len], cp = -1 when the digits are missing.
ScanUnicodeEscape(s, i) ==
    Bind(DecodeUXXXX(s, i + 2), LAMBDA uni :
        Bind(IF Matches(s, i + 6, <<92, 117>>) THEN DecodeUXXXX(s, i + 8) ELSE 0 - 1, LAMBDA uni2 :
            IF uni >= 55296 /\ uni <= 56319 /\ uni2 >= 56320 /\ uni2 <= 57343
            THEN [cp |-> 65536 + (uni - 55296) * 1024 + (uni2 - 56320), len |-> 12]
            ELSE [cp |-> uni, len |-> 6]))

\* py_scanstring(s, end, strict=True): the text from s[i] (the index after
\* the opening quote) to the closing quote, [ok, text, pos].
ScanString(s, i0) ==
    LET scan[i \in i0..(Len(s) + 1)] ==
            \* the result of scanning from i on, given the text before i
            IF i > Len(s) THEN [ok |-> FALSE, text |-> <<>>, pos |-> 0]
            ELSE IF s[i] = 34 THEN [ok |-> TRUE, text |-> <<>>, pos |-> i + 1]
            ELSE IF s[i] = 92 THEN
                IF i + 1 > Len(s) THEN [ok |-> FALSE, text |-> <<>>, pos |-> 0]
                ELSE IF s[i + 1] = 117 THEN
                    Bind(ScanUnicodeEscape(s, i), LAMBDA u :
                        IF u.cp < 0 \/ i + u.len > Len(s) + 1 THEN [ok |-> FALSE, text |-> <<>>, pos |-> 0]
                        ELSE Bind(scan[i + u.len], LAMBDA r : [r EXCEPT !.text = <<u.cp>> \o r.text]))
                ELSE IF Unescape(s[i + 1]) < 0 THEN [ok |-> FALSE, text |-> <<>>, pos |-> 0]
                ELSE Bind(scan[i + 2], LAMBDA r : [r EXCEPT !.text = <<Unescape(s[i + 1])>> \o r.text])
            ELSE IF s[i] < 32 THEN [ok |-> FALSE, text |-> <<>>, pos |-> 0]
            ELSE Bind(scan[i + 1], LAMBDA r : [r EXCEPT !.text = <<s[i]>> \o r.text])
    IN IF i0 > Len(s) + 1 THEN [ok |-> FALSE, text |-> <<>>, pos |-> 0] ELSE scan[i0]

\* The number s[i..j-1] denotes (digits only).
DigitsValue(s, i, j) ==
    LET val[k \in (i - 1)..(j - 1)] == IF k < i THEN 0 ELSE val[k - 1] * 10 + (s[k] - 48)
    IN val[j - 1]

\* NUMBER_RE = (-?(?:0|[1-9]\d*))(\.\d+)?([eE][-+]?\d+)?
ScanNumber(s, i) ==
    Bind(IF i <= Len(s) /\ s[i] = 45 THEN i + 1 ELSE i, LAMBDA d0 :
    Bind(IF d0 <= Len(s) /\ s[d0] = 48 THEN d0 + 1
         ELSE IF d0 <= Len(s) /\ IsDigit(s[d0]) THEN SkipDigits(s, d0)
         ELSE 0, LAMBDA intEnd :
    IF intEnd = 0 THEN ScanFail
    ELSE
    Bind(IF intEnd <= Len(s) /\ s[intEnd] = 46 THEN SkipDigits(s, intEnd + 1) ELSE 0, LAMBDA f :
    Bind(IF f > intEnd + 1 THEN f ELSE intEnd, LAMBDA fracEnd :
    Bind(IF fracEnd + 1 <= Len(s) /\ (s[fracEnd + 1] = 43 \/ s[fracEnd + 1] = 45)
         THEN fracEnd + 2 ELSE fracEnd + 1, LAMBDA e1 :
    Bind(IF fracEnd <= Len(s) /\ (s[fracEnd] = 101 \/ s[fracEnd] = 69) THEN SkipDigits(s, e1) ELSE 0, LAMBDA e :
    Bind(IF e > e1 THEN e ELSE fracEnd, LAMBDA expEnd :
        IF expEnd > intEnd THEN ScanOk(JFloat(SubSeq(s, i, expEnd - 1)), expEnd)
        ELSE IF d0 > i THEN ScanOk(JInt(0 - DigitsValue(s, d0, intEnd)), intEnd)
        ELSE ScanOk(JInt(DigitsValue(s, d0, intEnd)), intEnd))))))))

\* dict[key] = value: a repeated key keeps its place and takes the last value.
DictPut(d, k, v) ==
    IF \E p \in 1..Len(d.keys) : d.keys[p] = k
    THEN JDict(d.keys, [p \in 1..Len(d.keys) |-> IF d.keys[p] = k THEN v ELSE d.items[p]])
    ELSE JDict(Append(d.keys, k), Append(d.items, v))

RECURSIVE ScanOnce(_, _), ArrayLoop(_, _, _), ObjectLoop(_, _, _)
\* py_make_scanner._scan_once
ScanOnce(s, i) ==
    IF i > Len(s) THEN ScanFail
    ELSE IF s[i] = 34 THEN
        Bind(ScanString(s, i + 1), LAMBDA r : IF r.ok THEN ScanOk(JStr(r.text), r.pos) ELSE ScanFail)
    ELSE IF s[i] = 123 THEN
        Bind(SkipWs(s, i + 1), LAMBDA j :
            IF j > Len(s) THEN ScanFail
            ELSE IF s[j] = 125 THEN ScanOk(JDict(<<>>, <<>>), j + 1)
            ELSE IF s[j] # 34 THEN ScanFail
            ELSE ObjectLoop(s, j + 1, JDict(<<>>, <<>>)))
    ELSE IF s[i] = 91 THEN
        Bind(SkipWs(s, i + 1), LAMBDA j :
            IF j <= Len(s) /\ s[j] = 93 THEN ScanOk(JList(<<>>), j + 1)
            ELSE ArrayLoop(s, j, <<>>))
    ELSE IF Matches(s, i, <<110, 117, 108, 108>>) THEN ScanOk(JNull, i + 4)
    ELSE IF Matches(s, i, <<116, 114, 117, 101>>) THEN ScanOk(JBool(TRUE), i + 4)
    ELSE IF Matches(s, i, <<102, 97, 108, 115, 101>>) THEN ScanOk(JBool(FALSE), i + 5)
    ELSE Bind(ScanNumber(s, i), LAMBDA num :
        IF num.ok THEN num
        ELSE IF Matches(s, i, <<78, 97, 78>>) THEN ScanOk(JFloat(<<78, 97, 78>>), i + 3)
        ELSE IF Matches(s, i, <<73, 110, 102, 105, 110, 105, 116, 121>>)
             THEN ScanOk(JFloat(SubSeq(s, i, i + 7)), i + 8)
        ELSE IF Matches(s, i, <<45, 73, 110, 102, 105, 110, 105, 116, 121>>)
             THEN ScanOk(JFloat(SubSeq(s, i, i + 8)), i + 9)
        ELSE ScanFail)

\* JSONArray: j is the index of the next element, acc the elements so far.
ArrayLoop(s, j, acc) ==
    Bind(ScanOnce(s, j), LAMBDA r :
        IF ~r.ok THEN ScanFail
        ELSE Bind(SkipWs(s, r.pos), LAMBDA k :
            IF k > Len(s) THEN ScanFail
            ELSE IF s[k] = 93 THEN ScanOk(JList(Append(acc, r.val)), k + 1)
            ELSE IF s[k] # 44 THEN ScanFail
            ELSE Bind(Append(acc, r.val), LAMBDA acc2 : ArrayLoop(s, SkipWs(s, k + 1), acc2))))

\* JSONObject: j is the index after the opening quote of the next key, d the
\* dict so far.
ObjectLoop(s, j, d) ==
    Bind(ScanString(s, j), LAMBDA key :
        IF ~key.ok THEN ScanFail
        ELSE Bind(SkipWs(s, key.pos), LAMBDA k :
            IF k > Len(s) \/ s[k] # 58 THEN ScanFail
            ELSE Bind(ScanOnce(s, SkipWs(s, k + 1)), LAMBDA r :
                IF ~r.ok THEN ScanFail
                ELSE Bind(SkipWs(s, r.pos), LAMBDA m :
                    IF m > Len(s) THEN ScanFail
                    ELSE Bind(DictPut(d, key.text, r.val), LAMBDA d2 :
                        IF s[m] = 125 THEN ScanOk(d2, m + 1)
                        ELSE IF s[m] # 44 THEN ScanFail
                        ELSE Bind(SkipWs(s, m + 1), LAMBDA n :
                            IF n > Len(s) \/ s[n] # 34 THEN ScanFail
                            ELSE ObjectLoop(s, n + 1, d2)))))))

\* JSONDecoder.decode: one value, white space around it, nothing else.
loads(s) ==
    Bind(ScanOnce(s, SkipWs(s, 1)), LAMBDA r :
        IF ~r.ok THEN ScanFail
        ELSE IF SkipWs(s, r.pos) # Len(s) + 1 THEN ScanFail
        ELSE r)

(***************************************************************************)
(* zlib.crc32(payload) & 0xFFFFFFFF.  The 32-bit register is the set of    *)
(* the positions of its one bits (bit 0 the least significant); the        *)
(* result is the register as four bytes, most significant first.           *)
(***************************************************************************)
Pow2(k) == IF k = 0 THEN 1 ELSE IF k = 1 THEN 2 ELSE IF k = 2 THEN 4 ELSE IF k = 3 THEN 8
           ELSE IF k = 4 THEN 16 ELSE IF k = 5 THEN 32 ELSE IF k = 6 THEN 64 ELSE 128

BitsOfByte(b) == {k \in 0..7 : (b \div Pow2(k)) % 2 = 1}

Xor(a, b) == {k \in 0..31 : (k \in a) # (k \in b)}

\* 0xEDB88320
CrcPoly == {5, 8, 9, 15, 19, 20, 21, 23, 24, 26, 27, 29, 30, 31}

\* One bit of the register r shifted out.
CrcShift(r) ==
    Bind({k \in 0..30 : (k + 1) \in r}, LAMBDA sh : IF 0 \in r THEN Xor(sh, CrcPoly) ELSE sh)

\* The register r after the byte b: b is added to its low bits, then eight
\* bits are shifted out.
CrcByte(r, b) ==
    LET sh[i \in 0..8] ==
            IF i = 0 THEN Bind(BitsOfByte(b), LAMBDA bits : Xor(r, bits))
            ELSE Bind(sh[i - 1], LAMBDA p : CrcShift(p))
    IN sh[8]

\* The register r after the bytes bs[lo..hi], one half after the other.
RECURSIVE CrcRange(_, _, _, _)
CrcRange(bs, r, lo, hi) ==
    IF lo > hi THEN r
    ELSE IF lo = hi THEN CrcByte(r, bs[lo])
    ELSE Bind(CrcRange(bs, r, lo, (lo + hi) \div 2), LAMBDA p : CrcRange(bs, p, (lo + hi) \div 2 + 1, hi))

\* The register after the bytes of bs.
CrcRun(bs) == CrcRange(bs, 0..31, 1, Len(bs))

\* The byte of the register r whose lowest bit is at base.
ByteOfBits(r, base) ==
    LET sum[k \in 0..8] == IF k = 0 THEN 0 ELSE sum[k - 1] + (IF (base + k - 1) \in r THEN Pow2(k - 1) ELSE 0)
    IN sum[8]

crc32(bs) ==
    Bind(bs, LAMBDA data :
        Bind(CrcRun(data), LAMBDA reg :
            Bind(Xor(reg, 0..31), LAMBDA r :
                <<ByteOfBits(r, 24), ByteOfBits(r, 16), ByteOfBits(r, 8), ByteOfBits(r, 0)>>)))

(***************************************************************************)
(* struct "!4sII": magic, length, checksum; twelve bytes.                  *)
(***************************************************************************)
\* b"JSN1"
FRAME_MAGIC == <<74, 83, 78, 49>>

FRAME_HEADER_SIZE == 12

DEFAULT_MAX_MESSAGE_SIZE == 10485760

\* An unsigned 32-bit integer, big-endian (the model's lengths stay below 2^31).
PackU32(n) == <<n \div 16777216, (n \div 65536) % 256, (n \div 256) % 256, n % 256>>

UnpackU32(b) == ((b[1] * 256 + b[2]) * 256 + b[3]) * 256 + b[4]

\* struct.pack(FRAME_HEADER_FMT, FRAME_MAGIC, len(payload), checksum)
PackHeader(magic, size, checksum) == magic \o PackU32(size) \o checksum

\* A faulty U32Gt, for FaultyFrameRejected to catch: no length is too long.
U32GtNever(a, b) == FALSE

\* a > b for two unsigned 32-bit integers given as four bytes each
U32Gt(a, b) ==
    \E i \in 1..4 : a[i] > b[i] /\ \A j \in 1..(i - 1) : a[j] = b[j]

\* struct.unpack(FRAME_HEADER_FMT, header): the length and the checksum stay
\* four bytes each, so that a length of 2^31 or more is still a length.
UnpackHeader(h) == [magic |-> SubSeq(h, 1, 4), size |-> SubSeq(h, 5, 8), checksum |-> SubSeq(h, 9, 12)]

(***************************************************************************)
(* JsonSocket: the read path.  A read is taken at the moment it ends: buf  *)
(* is what the peer has written and this socket has not yet read, eof      *)
(* tells that the peer has closed, and a recv that finds neither a byte    *)
(* nor the end of the stream runs into the socket's (finite) timeout.      *)
(***************************************************************************)
MsgReadTimeout == "socket read timeout during message"

MsgBadMagic == "invalid message header magic"

MsgTooLong == "message length exceeds max_message_size"

MsgBadChecksum == "message checksum mismatch"

MsgBadUtf8 == "invalid UTF-8 payload"

MsgBadJson == "invalid JSON payload"

\* tserver._framing_failure_kind(error): the failure counter a FramingError
\* is counted under, told by its message.
_framing_failure_kind(msg) ==
    IF msg = MsgBadMagic THEN "bad_header"
    ELSE IF msg = MsgBadChecksum THEN "bad_crc"
    ELSE IF msg = MsgTooLong THEN "oversize"
    ELSE IF msg = MsgBadUtf8 THEN "invalid_utf8"
    ELSE IF msg = MsgBadJson THEN "invalid_json"
    ELSE IF msg = MsgReadTimeout THEN "timeout"
    ELSE "framing"

\* A faulty _read, for IdleTimeoutRecoverable to catch: a timeout is a
\* framing fault even when nothing has been received.
_readStrict(buf, size, allow_timeout, eof) ==
    IF Len(buf) >= size
    THEN [status |-> "ok", data |-> SubSeq(buf, 1, size), rest |-> SubSeq(buf, size + 1, Len(buf)), closes |-> FALSE]
    ELSE IF eof
    THEN [status |-> "broken", data |-> <<>>, rest |-> <<>>, closes |-> TRUE]
    ELSE [status |-> "framing", data |-> <<>>, rest |-> <<>>, closes |-> TRUE]

\* A faulty _read, for MidMessageTimeoutFatal to catch: a timeout of the
\* header's read is re-raised whatever has been received.
_readLenient(buf, size, allow_timeout, eof) ==
    IF Len(buf) >= size
    THEN [status |-> "ok", data |-> SubSeq(buf, 1, size), rest |-> SubSeq(buf, size + 1, Len(buf)), closes |-> FALSE]
    ELSE IF eof
    THEN [status |-> "broken", data |-> <<>>, rest |-> <<>>, closes |-> TRUE]
    ELSE IF allow_timeout
    THEN [status |-> "timeout", data |-> <<>>, rest |-> buf, closes |-> FALSE]
    ELSE [status |-> "framing", data |-> <<>>, rest |-> <<>>, closes |-> TRUE]

\* JsonSocket._read(size, allow_timeout): status is "ok" (data returned),
\* "timeout" (socket.timeout re-raised), "framing" (FramingError) or "broken"
\* (RuntimeError "socket connection broken"); closes tells whether
\* _close_connection was called.
_read(buf, size, allow_timeout, eof) ==
    IF Len(buf) >= size
    THEN [status |-> "ok", data |-> SubSeq(buf, 1, size), rest |-> SubSeq(buf, size + 1, Len(buf)), closes |-> FALSE]
    ELSE IF eof
    THEN [status |-> "broken", data |-> <<>>, rest |-> <<>>, closes |-> TRUE]
    ELSE IF allow_timeout /\ buf = <<>>
    THEN [status |-> "timeout", data |-> <<>>, rest |-> buf, closes |-> FALSE]
    ELSE [status |-> "framing", data |-> <<>>, rest |-> <<>>, closes |-> TRUE]

\* JsonSocket._read_header(); max is _max_message_size, 0 standing for None.
_read_header(buf, eof, max) ==
    Bind(_read(buf, FRAME_HEADER_SIZE, TRUE, eof), LAMBDA r :
        IF r.status # "ok"
        THEN [status |-> r.status, msg |-> IF r.status = "framing" THEN MsgReadTimeout ELSE "",
              size |-> 0, checksum |-> <<>>, rest |-> r.rest, closes |-> r.closes]
        ELSE Bind(UnpackHeader(r.data), LAMBDA h :
            IF h.magic # FRAME_MAGIC
            THEN [status |-> "framing", msg |-> MsgBadMagic, size |-> 0, checksum |-> <<>>,
                  rest |-> <<>>, closes |-> TRUE]
            ELSE IF max # 0 /\ U32Gt(h.size, PackU32(max))
            THEN [status |-> "framing", msg |-> MsgTooLong, size |-> 0, checksum |-> <<>>,
                  rest |-> <<>>, closes |-> TRUE]
            ELSE [status |-> "ok", msg |-> "", size |-> UnpackU32(h.size), checksum |-> h.checksum,
                  rest |-> r.rest, closes |-> FALSE]))

\* What a failed read_obj leaves: no value.
ReadFault(kind, msg, hdr, size) ==
    [kind |-> kind, msg |-> msg, value |-> JNull, hdr_ok |-> hdr, size |-> size, rest |-> <<>>, closes |-> TRUE]

\* JsonSocket.read_obj(): kind is "ok" (value returned), "timeout", "framing"
\* or "broken"; hdr_ok tells that _last_read_size was set, to size.
read_obj(buf, eof, max) ==
    Bind(_read_header(buf, eof, max), LAMBDA h :
        IF h.status = "timeout"
        THEN [kind |-> "timeout", msg |-> "", value |-> JNull, hdr_ok |-> FALSE, size |-> 0,
              rest |-> h.rest, closes |-> FALSE]
        ELSE IF h.status # "ok" THEN ReadFault(h.status, h.msg, FALSE, 0)
        ELSE Bind(_read(h.rest, h.size, FALSE, eof), LAMBDA p :
            IF p.status = "framing" THEN ReadFault("framing", MsgReadTimeout, TRUE, h.size)
            ELSE IF p.status # "ok" THEN ReadFault(p.status, "", TRUE, h.size)
            ELSE IF crc32(p.data) # h.checksum THEN ReadFault("framing", MsgBadChecksum, TRUE, h.size)
            ELSE Bind(utf8_decode(p.data), LAMBDA decoded :
                IF ~decoded.ok THEN ReadFault("framing", MsgBadUtf8, TRUE, h.size)
                ELSE Bind(loads(decoded.text), LAMBDA parsed :
                    IF ~parsed.ok THEN ReadFault("framing", MsgBadJson, TRUE, h.size)
                    ELSE [kind |-> "ok", msg |-> "", value |-> parsed.val, hdr_ok |-> TRUE, size |-> h.size,
                          rest |-> p.rest, closes |-> FALSE]))))

(***************************************************************************)
(* JsonSocket: the write path.                                             *)
(***************************************************************************)
\* msg.encode('utf-8') of json.dumps(obj, ensure_ascii=False)
Payload(obj) == Bind(dumps(obj), LAMBDA text : utf8_encode(text))

\* A faulty ExceedsMax, for OversizeSendRefused to catch: no payload is too long.
ExceedsMaxNever(payload, max) == FALSE

\* send_obj's test of the payload against _max_message_size (0: None)
ExceedsMax(payload, max) == max # 0 /\ Len(payload) > max

\* What send_obj hands to _send: the packed header, then the payload.
FrameOf(payload) == Bind(payload, LAMBDA p : PackHeader(FRAME_MAGIC, Len(p), crc32(p)) \o p)

(***************************************************************************)
(* Bounds and inputs of the codec's state machine.                         *)
(***************************************************************************)
\* send_obj calls (or raw writes) of the sending peer
MaxSends == 2

\* read_obj calls of the reading socket
MaxReads == 3

\* the max_message_size both sockets are configured with
MaxMessageSize == 20

\* The values sent: scalars, text with escapes and with multi-byte
\* characters, a list, dicts; the last one's payload is 25 bytes long.
Values ==
    { JInt(0 - 12),
      JStr(<<113, 34, 92, 10>>),
      JStr(<<233, 8364>>),
      JList(<<JFloat(<<49, 46, 53>>), JStr(<<97>>)>>),
      JDict(<< <<97>> >>, <<JList(<<JNull, JBool(FALSE)>>)>>),
      JDict(<< <<101, 99, 104, 111>>, <<105>> >>, <<JStr(<<104, 101, 108, 108, 111>>), JInt(1)>>) }

\* What one conn.send may take: a count that cuts a frame inside its header,
\* one that cuts it between header and payload (and a longer payload inside
\* itself), and all of any frame.
ChunkSizes == {FRAME_HEADER_SIZE - 1, FRAME_HEADER_SIZE, FRAME_HEADER_SIZE + MaxMessageSize}

\* bs with the byte at p moved by d
Corrupt(bs, p, d) == [bs EXCEPT ![p] = (bs[p] + d) % 256]

\* The frame of the value 7, which a raw peer corrupts byte by byte.
BaseFrame == FrameOf(Payload(JInt(7)))

\* What a raw TCP peer writes in one go: a well-formed frame, a frame with
\* one byte changed (the first and the last of the magic, of the length, of
\* the checksum, the payload), a well-framed payload that is not UTF-8 or not JSON, a
\* header announcing too long a payload, the beginning of a frame.
RawWrites ==
    { BaseFrame }
    \cup { Corrupt(BaseFrame, p, 1) : p \in {1, 4, 5, 8, 9, 12, 13} }
    \cup { Corrupt(BaseFrame, 8, 255), Corrupt(FrameOf(<<255>>), 9, 1),
           <<75, 83, 78, 49, 255, 255, 255, 255, 0, 0, 0, 0>> }
    \cup { FrameOf(<<110, 111, 116, 45, 106, 115, 111, 110>>), FrameOf(<<>>), FrameOf(<<32, 55, 32>>),
           FrameOf(<<255>>), FrameOf(<<34, 195, 34>>) }
    \cup { PackHeader(FRAME_MAGIC, MaxMessageSize + 1, <<0, 0, 0, 0>>),
           FRAME_MAGIC \o <<255, 255, 255, 255>> \o <<0, 0, 0, 0>> }
    \cup { SubSeq(BaseFrame, 1, 5), SubSeq(FrameOf(Payload(JList(<<JInt(1), JStr(<<97>>)>>))), 1, 17) }

(***************************************************************************)
(* The state.                                                              *)
(***************************************************************************)
VARIABLES
    raw,        \* the sending peer is a raw TCP client, not a JsonSocket
    tx,         \* the sending socket: open, the bytes _send has yet to write, the value being sent
    rx,         \* the reading socket: open, _last_read_size
    wire,       \* the bytes written by the sender and not yet read
    sent,       \* the values whose send_obj has returned, in order
    rcvd,       \* the values read_obj has returned, in order
    tx_log,     \* how each send_obj call (or raw write) ended, in order
    rx_log,     \* how each read_obj call ended, in order
    is_alive,   \* the server's _is_alive
    srv_pc,     \* where the server thread is in run()
    conn,       \* the server's conn: 0 is its listening socket, c the socket accepted from client c
    sock_open,  \* which of the server's sockets are open: 0 the listening socket, c the accepted one
    lsn,        \* the listening socket: _is_listening, the clients waiting to be accepted
    wake,       \* the wakeup pair: open, the bytes written and not drained
    chan,       \* per client: its socket, the bytes in flight each way
    ctl,        \* the thread that owns the server: start() and stop() calls
    srv_stats,  \* the server's _client_stats, _active_client_id, _client_id
    threads,    \* a ServerFactory's _threads: the workers, each named after its client
    wk,         \* per worker: where its thread is, its _is_alive, its statistics
    fac,        \* a ServerFactory's accepted_conn, the workers stop_all() has yet to join, _client_stats_archive
    jc,         \* a JsonClient: its socket, the sockets it has made, where it is in connect()
    heap,       \* the dicts of statistics, by address: records, and the failures of each
    client_stats,     \* a ThreadedServer's _client_stats: the address of each client's record
    active_client_id, \* its _active_client_id
    clock,      \* the time: time.monotonic(), time.time()
    returned,   \* what get_client_stats() has returned to its callers, in order
    held_by,    \* which thread holds each lock (_threads_lock, a _stats_lock)
    stmt_at     \* the statement each thread is at, in the lock model of the threads

codecVars == <<raw, tx, rx, wire, sent, rcvd, tx_log, rx_log>>

serverVars == <<is_alive, srv_pc, conn, sock_open, lsn, wake, chan, ctl, srv_stats>>

factoryVars == <<threads, wk, fac>>

clientVars == <<jc>>

heapVars == <<heap, client_stats, active_client_id, clock, returned>>

lockVars == <<held_by, stmt_at>>

vars == <<codecVars, serverVars, factoryVars, clientVars, heapVars, lockVars>>

\* _last_read_size / _last_send_size before the first message: None
NoSize == 0 - 1

\* The pair of JsonSockets as constructed and connected.
CodecIdle ==
    /\ tx = [open |-> TRUE, pend |-> <<>>, cur |-> JNull, last_send_size |-> NoSize]
    /\ rx = [open |-> TRUE, last_read_size |-> NoSize]
    /\ wire = <<>>
    /\ sent = <<>>
    /\ rcvd = <<>>
    /\ tx_log = <<>>
    /\ rx_log = <<>>

\* the clients of a server
MaxClients == 2

\* writes of all the clients of a single-connection server
MaxWrites == 2

\* writes of all the clients of a factory server
MaxWorkerWrites == 1

\* read timeouts counted for one client of a single-connection server, or
\* by any one worker of a factory server
MaxTimeouts == 1

\* stop() calls on one server
MaxStops == 1

Clients == 1..MaxClients

\* _active_client_id, _client_id: None
NoClient == 0

\* An owner of statistics as constructed: _client_stats = {},
\* _active_client_id = None, _client_id = None.
NoStats == [stats |-> [k \in {} |-> 0], active |-> NoClient, cid |-> NoClient]

\* Where the thread of a ThreadedServer is while it runs, and where that of
\* a ServerFactory is.
ServerPcs == {"run", "loop", "select", "session", "close"}

FactoryPcs ==
    {"f_run", "f_outer", "f_inner", "f_accept", "f_select", "f_check", "f_spawn", "f_append",
     "f_wait", "f_close"}

\* A server as constructed: bound, not listening, not started; its wakeup
\* pair made; no client connected.
ServerIdle ==
    /\ is_alive = FALSE
    /\ srv_pc = "new"
    /\ conn = 0
    /\ sock_open = [k \in 0..MaxClients |-> k = 0]
    /\ lsn = [listening |-> FALSE, backlog |-> <<>>]
    /\ wake = [open |-> TRUE, bytes |-> 0]
    /\ chan = [c \in Clients |->
                [st |-> "new", open |-> FALSE, c2s |-> <<>>, s2c |-> <<>>, writes |-> 0]]
    /\ ctl = [pc |-> "new", stops |-> 0]
    /\ srv_stats = NoStats

\* A worker not yet constructed, or as constructed: no thread, _is_alive
\* False, no statistics.
NoWorker == [pc |-> "none", is_alive |-> FALSE, o |-> NoStats, archived |-> FALSE]

\* No call of ServerFactory.get_client_stats under way: threads is the
\* call's copy of the list of workers, todo the workers its first loop has
\* still to look at, alive its list of the workers it found alive.
NoSnapshotCall == [pc |-> "idle", threads |-> <<>>, todo |-> <<>>, alive |-> <<>>]

\* A ServerFactory as constructed: _threads = [], _client_stats_archive = {};
\* get_client_stats not called.
FactoryIdle ==
    /\ threads = <<>>
    /\ wk = [c \in Clients |-> NoWorker]
    /\ fac = [accepted |-> NoClient, todo |-> <<>>, archive |-> NoStats.stats, gs |-> NoSnapshotCall]

\* A JsonClient as constructed: one socket, open and not connected;
\* connect() not called.
ClientIdle ==
    jc = [sock |-> 1, fds |-> <<"fresh">>, pc |-> "idle", attempt |-> 0,
          ret |-> "none", made |-> 0, tried |-> "none", calls |-> 0]

\* The threads of the lock model: the thread of ServerFactory.run(), the
\* owner that calls its stop(), a caller of its get_client_stats(), its
\* workers; the thread of ThreadedServer.run(), the one that calls its
\* stop() and a reader that calls its get_client_stats().
MaxWorkers == 1

Thread(kind, c) == [kind |-> kind, c |-> c]

NoThread == Thread("none", 0)

FactoryThreads ==
    {Thread("factory", 0), Thread("owner", 0), Thread("caller", 0)} \cup {Thread("worker", c) : c \in 1..MaxWorkers}

ServerThreads == {Thread("server", 0), Thread("stopper", 0), Thread("reader", 0)}

LockThreads == FactoryThreads \cup ServerThreads

\* The locks: the factory's _threads_lock, the server's _stats_lock, each
\* worker's _stats_lock
LockIds == {Thread("threads", 0), Thread("stats", 0)} \cup {Thread("worker", c) : c \in 1..MaxWorkers}

\* No lock is held and no thread of the lock model has started.
LocksIdle ==
    /\ held_by = [l \in LockIds |-> NoThread]
    /\ stmt_at = [t \in LockThreads |-> 0]

\* No dict of statistics yet: _client_stats = {}, _active_client_id = None,
\* get_client_stats() not yet called.  The clocks have started.
HeapIdle ==
    /\ heap = <<>>
    /\ client_stats = [k \in {} |-> 0]
    /\ active_client_id = NoClient
    /\ clock = 1
    /\ returned = <<>>

InitCodec ==
    /\ raw \in BOOLEAN
    /\ CodecIdle
    /\ ServerIdle
    /\ FactoryIdle
    /\ ClientIdle
    /\ HeapIdle /\ LocksIdle

(***************************************************************************)
(* JsonSocket.send_obj(obj) up to its first write: the size test, then     *)
(* the frame is handed to _send.  On a socket already closed the first     *)
(* conn.send raises OSError, which _send turns into "connection broken".   *)
(***************************************************************************)
SendObj(obj) ==
    /\ ~raw
    /\ tx.pend = <<>>
    /\ Len(tx_log) < MaxSends
    /\ \E payload \in {Payload(obj)} :
          IF ExceedsMax(payload, MaxMessageSize)
          THEN /\ tx' = [tx EXCEPT !.last_send_size = Len(payload)]
               /\ tx_log' = Append(tx_log, "oversize")
          ELSE IF ~tx.open
          THEN /\ tx' = [tx EXCEPT !.last_send_size = Len(payload)]
               /\ tx_log' = Append(tx_log, "broken")
          ELSE /\ tx' = [tx EXCEPT !.last_send_size = Len(payload), !.pend = FrameOf(payload), !.cur = obj]
               /\ UNCHANGED tx_log
    /\ UNCHANGED <<raw, rx, wire, sent, rcvd, rx_log>>
    /\ UNCHANGED <<serverVars, factoryVars, clientVars, heapVars, lockVars>>

(***************************************************************************)
(* One turn of JsonSocket._send's loop: conn.send takes at most k bytes of *)
(* what is left, or fails because the peer has closed (the socket is       *)
(* closed and "connection broken" raised).  Bytes written to a peer that   *)
(* has closed are lost.  With the last byte written send_obj returns.      *)
(***************************************************************************)
SendChunk(k, fails) ==
    /\ tx.pend # <<>>
    /\ fails => ~rx.open
    /\ IF fails
       THEN /\ tx' = [tx EXCEPT !.open = FALSE, !.pend = <<>>]
            /\ tx_log' = Append(tx_log, "broken")
            /\ UNCHANGED <<wire, sent>>
       ELSE \E n \in {IF k < Len(tx.pend) THEN k ELSE Len(tx.pend)} :
            /\ tx' = [tx EXCEPT !.pend = SubSeq(tx.pend, n + 1, Len(tx.pend))]
            /\ wire' = IF rx.open THEN wire \o SubSeq(tx.pend, 1, n) ELSE wire
            /\ IF n = Len(tx.pend)
               THEN /\ sent' = Append(sent, tx.cur)
                    /\ tx_log' = Append(tx_log, "ok")
               ELSE UNCHANGED <<sent, tx_log>>
    /\ UNCHANGED <<raw, rx, rcvd, rx_log>>
    /\ UNCHANGED <<serverVars, factoryVars, clientVars, heapVars, lockVars>>

\* A raw TCP peer writes bytes of its own making.
RawWrite(bs) ==
    /\ raw
    /\ tx.open
    /\ Len(tx_log) < MaxSends
    /\ wire' = IF rx.open THEN wire \o bs ELSE wire
    /\ tx_log' = Append(tx_log, "raw")
    /\ UNCHANGED <<raw, tx, rx, sent, rcvd, rx_log>>
    /\ UNCHANGED <<serverVars, factoryVars, clientVars, heapVars, lockVars>>

\* The sending peer closes its socket (JsonSocket.close, or the raw peer's).
TxClose ==
    /\ tx.open
    /\ tx.pend = <<>>
    /\ tx' = [tx EXCEPT !.open = FALSE]
    /\ UNCHANGED <<raw, rx, wire, sent, rcvd, tx_log, rx_log>>
    /\ UNCHANGED <<serverVars, factoryVars, clientVars, heapVars, lockVars>>

(***************************************************************************)
(* JsonSocket.read_obj() on the reading socket.  On a socket it has closed *)
(* conn.recv raises OSError, which nothing in read_obj catches.            *)
(***************************************************************************)
ReadObj ==
    /\ Len(rx_log) < MaxReads
    /\ IF ~rx.open
       THEN /\ rx_log' = Append(rx_log, [kind |-> "oserror", msg |-> ""])
            /\ UNCHANGED <<rx, wire, rcvd>>
       ELSE \E r \in {read_obj(wire, ~tx.open /\ tx.pend = <<>>, MaxMessageSize)} :
               /\ rx_log' = Append(rx_log, [kind |-> r.kind, msg |-> r.msg])
               /\ rx' = [open |-> ~r.closes,
                         last_read_size |-> IF r.hdr_ok THEN r.size ELSE rx.last_read_size]
               /\ wire' = r.rest
               /\ rcvd' = IF r.kind = "ok" THEN Append(rcvd, r.value) ELSE rcvd
    /\ UNCHANGED <<raw, tx, sent, tx_log>>
    /\ UNCHANGED <<serverVars, factoryVars, clientVars, heapVars, lockVars>>

NextCodec ==
    \/ \E obj \in Values : SendObj(obj)
    \/ \E k \in ChunkSizes, fails \in BOOLEAN : SendChunk(k, fails)
    \/ \E bs \in RawWrites : RawWrite(bs)
    \/ TxClose
    \/ ReadObj

SpecCodec == InitCodec /\ [][NextCodec]_vars

(***************************************************************************)
(* Properties of the codec.                                                *)
(***************************************************************************)
Last(seq) == seq[Len(seq)]

\* The step is a read_obj call: the only steps that add to rx_log.
IsRead == Len(rx_log') = Len(rx_log) + 1

\* The peer of the reading socket has not closed: a recv that finds no byte
\* times out.
PeerOpen == tx.open \/ tx.pend # <<>>

\* C5: between two JsonSockets, every read_obj that returns a value returns
\* the oldest value sent and not yet returned, equal to what send_obj was
\* given, and a read_obj on an open socket with such a value outstanding
\* returns it: k sends are returned by k reads, in order.
RoundTrip ==
    [][~raw =>
        /\ rcvd' # rcvd => Len(rcvd) < Len(sent) /\ rcvd' = Append(rcvd, sent[Len(rcvd) + 1])
        /\ IsRead /\ rx.open /\ Len(rcvd) < Len(sent) => rcvd' # rcvd]_vars

\* Two different values have been sent and read back, in order.
RoundTripWitness ==
    ~raw /\ Len(rcvd) = 2 /\ rcvd = sent /\ rcvd[1] # rcvd[2] /\ rx.open

\* The length field of the header at the head of w is above MaxMessageSize
\* (which is below 256).
LengthFieldTooLong(w) == <<w[5], w[6], w[7]>> # <<0, 0, 0>> \/ w[8] > MaxMessageSize

\* The payload of the frame at the head of w, whose header is sound.
PayloadOn(w) == SubSeq(w, FRAME_HEADER_SIZE + 1, FRAME_HEADER_SIZE + w[8])

\* The frame at the head of w is whole: header and announced payload.
WholeFrame(w) ==
    /\ Len(w) >= FRAME_HEADER_SIZE
    /\ SubSeq(w, 1, 4) = FRAME_MAGIC
    /\ ~LengthFieldTooLong(w)
    /\ Len(w) >= FRAME_HEADER_SIZE + w[8]

\* The framing fault the frame at the head of w deserves, "" if none: magic,
\* then length, then (payload present) checksum, UTF-8, JSON.
FaultOf(w) ==
    IF SubSeq(w, 1, 4) # FRAME_MAGIC THEN "bad_header"
    ELSE IF LengthFieldTooLong(w) THEN "oversize"
    ELSE IF ~WholeFrame(w) THEN ""
    ELSE IF crc32(PayloadOn(w)) # SubSeq(w, 9, 12) THEN "bad_crc"
    ELSE IF ~utf8_decode(PayloadOn(w)).ok THEN "invalid_utf8"
    ELSE IF ~loads(utf8_decode(PayloadOn(w)).text).ok THEN "invalid_json"
    ELSE ""

\* C6: a read_obj that finds a whole header whose frame is faulty (magic,
\* length, checksum, UTF-8, JSON, the first fault in that order deciding, the
\* first two whether or not any payload byte has arrived) returns no value,
\* closes the connection and raises the framing fault of that kind.
FaultyFrameRejected ==
    [][IsRead /\ rx.open /\ Len(wire) >= FRAME_HEADER_SIZE /\ FaultOf(wire) # "" =>
        /\ rcvd' = rcvd
        /\ ~rx'.open
        /\ Last(rx_log').kind = "framing"
        /\ _framing_failure_kind(Last(rx_log').msg) = FaultOf(wire)]_vars

\* A read has raised the last of the five faults, the frame having passed
\* the four tests before it.
FaultyFrameRejectedWitness ==
    /\ Len(rx_log) > 0
    /\ Last(rx_log).kind = "framing"
    /\ _framing_failure_kind(Last(rx_log).msg) = "invalid_json"
    /\ ~rx.open

\* C7: a read_obj that finds no byte, the peer still connected, ends as a
\* timeout: no value, no framing fault, the connection open and the wire
\* untouched.
IdleTimeoutRecoverable ==
    [][IsRead /\ rx.open /\ wire = <<>> /\ PeerOpen =>
        /\ Last(rx_log').kind = "timeout"
        /\ rx'.open
        /\ rcvd' = rcvd
        /\ wire' = wire]_vars

\* A read has timed out and the next read has returned the next message.
IdleTimeoutRecoverableWitness ==
    /\ Len(rx_log) = 2
    /\ rx_log[1].kind = "timeout"
    /\ rx_log[2].kind = "ok"
    /\ Len(rcvd) = 1

\* The frame at the head of w is begun and not whole, nothing in it faulty
\* so far: a part of a header, or a sound header and a part of its payload.
PartialFrame(w) ==
    /\ w # <<>>
    /\ \/ Len(w) < FRAME_HEADER_SIZE
       \/ /\ SubSeq(w, 1, 4) = FRAME_MAGIC
          /\ ~LengthFieldTooLong(w)
          /\ Len(w) < FRAME_HEADER_SIZE + w[8]

\* C8: a read_obj that finds a part of a frame, the peer still connected,
\* raises the framing fault of a timeout during a message and closes the
\* connection; and once the connection is closed it stays closed and no read
\* returns a value.
MidMessageTimeoutFatal ==
    [][/\ IsRead /\ rx.open /\ PartialFrame(wire) /\ PeerOpen =>
            /\ Last(rx_log').kind = "framing"
            /\ Last(rx_log').msg = MsgReadTimeout
            /\ ~rx'.open
            /\ rcvd' = rcvd
       /\ ~rx.open => ~rx'.open /\ rcvd' = rcvd]_vars

\* A read has timed out on a header whose payload was short, and a later
\* read on the closed connection has failed.
MidMessageTimeoutFatalWitness ==
    /\ Len(rx_log) >= 2
    /\ rx_log[Len(rx_log) - 1] = [kind |-> "framing", msg |-> MsgReadTimeout]
    /\ rx.last_read_size # NoSize
    /\ Last(rx_log).kind = "oserror"
    /\ ~rx.open

\* C9: send_obj of a value whose payload is longer than max_message_size
\* ends with the oversize error, no byte written or left to write, the
\* socket open as before.
OversizeSendRefused ==
    [][\A v \in Values : tx' # tx /\ tx.pend = <<>> /\ Len(Payload(v)) > MaxMessageSize /\ SendObj(v) =>
        /\ Len(tx_log') = Len(tx_log) + 1
        /\ Last(tx_log') = "oversize"
        /\ wire' = wire
        /\ tx'.pend = <<>>
        /\ tx'.open = tx.open
        /\ sent' = sent]_vars

\* An oversize send has been refused and the next send, of a value that
\* fits, has succeeded and has been read by the peer.
OversizeSendRefusedWitness ==
    /\ tx_log = <<"oversize", "ok">>
    /\ Len(rcvd) = 1
    /\ tx.open

(***************************************************************************)
(* tserver: the statistics an owner (a server, a worker) keeps per client. *)
(* Time is not modelled: the timestamps and durations of a record are left *)
(* out.  A client id is the peer's address, here the client's number.      *)
(***************************************************************************)
FailureKinds ==
    {"timeout", "bad_write", "bad_crc", "bad_header", "oversize", "invalid_utf8", "invalid_json",
     "handler", "framing"}

_new_failure_counts == [k \in FailureKinds |-> 0]

_new_client_stats(client_id) ==
    [client_id |-> client_id, connected |-> FALSE, connects |-> 0, disconnects |-> 0,
     messages_in |-> 0, messages_out |-> 0, bytes_in |-> 0, bytes_out |-> 0,
     failures |-> _new_failure_counts]

_get_active_client_id(o) == IF o.active # NoClient THEN o.active ELSE o.cid

\* The map m with a record for client_id, a new one if it had none.
_get_or_create_stats(m, client_id) ==
    IF client_id \in DOMAIN m THEN m ELSE m @@ (client_id :> _new_client_stats(client_id))

_note_connect(o, client_id) ==
    [o EXCEPT !.stats = [_get_or_create_stats(o.stats, client_id) EXCEPT
                            ![client_id].connected = TRUE,
                            ![client_id].connects = @ + 1],
              !.active = client_id]

_note_disconnectDropped(o) == o

_note_disconnectUncounted(o) ==
    Bind(_get_active_client_id(o), LAMBDA id :
        IF id = NoClient THEN o
        ELSE Bind(_get_or_create_stats(o.stats, id), LAMBDA m :
            IF ~m[id].connected THEN [o EXCEPT !.stats = m]
            ELSE [o EXCEPT !.stats = [m EXCEPT ![id].connected = FALSE], !.active = NoClient]))

_note_disconnect(o) ==
    Bind(_get_active_client_id(o), LAMBDA id :
        IF id = NoClient THEN o
        ELSE Bind(_get_or_create_stats(o.stats, id), LAMBDA m :
            IF ~m[id].connected THEN [o EXCEPT !.stats = m]
            ELSE [o EXCEPT !.stats = [m EXCEPT ![id].connected = FALSE, ![id].disconnects = @ + 1],
                           !.active = NoClient]))

_note_message_inAsConnect(o, size) == _note_connect(o, _get_active_client_id(o))

_note_message_inNoBytes(o, size) ==
    Bind(_get_active_client_id(o), LAMBDA id :
        IF id = NoClient THEN o
        ELSE [o EXCEPT !.stats = [_get_or_create_stats(o.stats, id) EXCEPT ![id].messages_in = @ + 1]])

_note_message_in(o, size) ==
    Bind(_get_active_client_id(o), LAMBDA id :
        IF id = NoClient THEN o
        ELSE [o EXCEPT !.stats = [_get_or_create_stats(o.stats, id) EXCEPT
                                    ![id].messages_in = @ + 1,
                                    ![id].bytes_in = @ + (IF size = NoSize THEN 0 ELSE size)]])

_note_message_outTwice(o, size) ==
    Bind(_get_active_client_id(o), LAMBDA id :
        IF id = NoClient THEN o
        ELSE [o EXCEPT !.stats = [_get_or_create_stats(o.stats, id) EXCEPT
                                    ![id].messages_out = @ + 2,
                                    ![id].bytes_out = @ + (IF size = NoSize THEN 0 ELSE size)]])

_note_message_out(o, size) ==
    Bind(_get_active_client_id(o), LAMBDA id :
        IF id = NoClient THEN o
        ELSE [o EXCEPT !.stats = [_get_or_create_stats(o.stats, id) EXCEPT
                                    ![id].messages_out = @ + 1,
                                    ![id].bytes_out = @ + (IF size = NoSize THEN 0 ELSE size)]])

_note_failureTwice(o, kind) ==
    Bind(_get_active_client_id(o), LAMBDA id :
        IF id = NoClient THEN o
        ELSE [o EXCEPT !.stats = [_get_or_create_stats(o.stats, id) EXCEPT ![id].failures[kind] = @ + 2]])

_note_failureDropped(o, kind) == o

_note_failure(o, kind) ==
    Bind(_get_active_client_id(o), LAMBDA id :
        IF id = NoClient THEN o
        ELSE [o EXCEPT !.stats = [_get_or_create_stats(o.stats, id) EXCEPT ![id].failures[kind] = @ + 1]])

_merge_client_statsKeepConnects(dest, src) ==
    [dest EXCEPT !.disconnects = @ + src.disconnects,
                 !.connected = dest.connected \/ src.connected]

\* None, where a time is expected
NoTime == 0 - 1

_max_tsRight(left, right) == right

\* _max_ts
_max_ts(left, right) ==
    IF left = NoTime THEN right
    ELSE IF right = NoTime THEN left
    ELSE IF right > left THEN right ELSE left

CounterKeys == {"connects", "disconnects", "messages_in", "messages_out", "bytes_in", "bytes_out"}

TimestampKeys == {"last_connect_ts", "last_disconnect_ts", "last_message_ts"}

\* _merge_client_stats, key by key of dest (the records of a server whose
\* clock is not modelled have no key of time): the counters, the total
\* duration and the failures add up, a timestamp is the later one, connected
\* and _connected_since are taken over from a connected src.
_merge_client_stats(dest, src) ==
    [key \in DOMAIN dest |->
        CASE key \in CounterKeys -> dest[key] + src[key]
          [] key = "total_connected_duration" -> dest[key] + src[key]
          [] key = "failures" -> [k \in FailureKinds |-> dest[key][k] + src[key][k]]
          [] key \in TimestampKeys -> _max_ts(dest[key], src[key])
          [] key = "connected" -> dest[key] \/ src[key]
          [] key = "_connected_since" ->
                IF src["connected"] /\ (dest[key] = NoTime \/ (src[key] # NoTime /\ src[key] < dest[key]))
                THEN src[key] ELSE dest[key]
          [] OTHER -> dest[key]]

\* A client id taken from a message is a text.  The client ids of the model
\* being numbers (the addresses are 1..MaxClients), a text is named by the
\* number its code points spell in base 128, beyond the addresses.
RECURSIVE TextNumber(_)
TextNumber(t) == IF t = <<>> THEN 0 ELSE TextNumber(SubSeq(t, 1, Len(t) - 1)) * 128 + t[Len(t)]

ClientIdOfText(t) == IF t = <<>> THEN NoClient ELSE MaxClients + TextNumber(t)

\* str.isspace of one code point
IsPySpace(c) ==
    \/ c >= 9 /\ c <= 13
    \/ c >= 28 /\ c <= 32
    \/ c \in {133, 160, 5760, 8232, 8233, 8239, 8287, 12288}
    \/ c >= 8192 /\ c <= 8202

\* str.strip()
RECURSIVE strip(_)
strip(t) ==
    IF t = <<>> THEN t
    ELSE IF IsPySpace(t[1]) THEN strip(Tail(t))
    ELSE IF IsPySpace(t[Len(t)]) THEN strip(SubSeq(t, 1, Len(t) - 1))
    ELSE t

\* _normalize_client_id of None, a bool, an int or a str (a bool is an int
\* to isinstance: str(True) is "True"); the empty text stands for None.
_normalize_client_id(value) ==
    CASE value.t = "null" -> <<>>
      [] value.t = "bool" -> IF value.n = 1 THEN <<84, 114, 117, 101>> ELSE <<70, 97, 108, 115, 101>>
      [] value.t = "int" -> IntDigits(value.n)
      [] value.t = "str" -> strip(value.s)

\* dict.get(key) of a dict that has the key
DictGet(obj, key) == obj.items[CHOOSE p \in 1..Len(obj.keys) : obj.keys[p] = key]

KeyClient == <<99, 108, 105, 101, 110, 116>>

KeyClientId == <<99, 108, 105, 101, 110, 116, 95, 105, 100>>

\* _extract_client_id: "client" is looked up before "client_id", and alone
\* if it is there.
_extract_client_id(obj) ==
    IF obj.t # "dict" THEN <<>>
    ELSE IF \E p \in 1..Len(obj.keys) : obj.keys[p] = KeyClient THEN _normalize_client_id(DictGet(obj, KeyClient))
    ELSE IF \E p \in 1..Len(obj.keys) : obj.keys[p] = KeyClientId THEN _normalize_client_id(DictGet(obj, KeyClientId))
    ELSE <<>>

_set_client_identityKeepOld(o, new_client_id) ==
    Bind(_get_active_client_id(o), LAMBDA current_id :
        IF new_client_id = NoClient \/ current_id = new_client_id THEN o
        ELSE [stats |-> [id \in DOMAIN o.stats \cup {new_client_id} |->
                            IF id # new_client_id THEN o.stats[id]
                            ELSE [_get_or_create_stats(o.stats, current_id)[current_id] EXCEPT
                                    !.client_id = new_client_id]],
              active |-> new_client_id,
              cid |-> new_client_id])

\* _set_client_identity: the record of the active client goes under the new
\* id, merged into the record already there if there is one.
_set_client_identity(o, new_client_id) ==
    Bind(_get_active_client_id(o), LAMBDA current_id :
        IF new_client_id = NoClient \/ current_id = new_client_id THEN o
        ELSE Bind([(IF current_id \in DOMAIN o.stats THEN o.stats[current_id]
                    ELSE _new_client_stats(new_client_id)) EXCEPT !.client_id = new_client_id],
                  LAMBDA existing :
                    [stats |-> [id \in (DOMAIN o.stats \cup {new_client_id}) \ {current_id} |->
                                    IF id # new_client_id THEN o.stats[id]
                                    ELSE IF id \in DOMAIN o.stats THEN _merge_client_stats(o.stats[id], existing)
                                    ELSE existing],
                     active |-> new_client_id,
                     cid |-> new_client_id]))

\* The handlers' statements between read_obj and _process_message:
\* _extract_client_id, _set_client_identity if it gave an id, and
\* _note_message_in.
NoteMessageRead(o, obj, size) ==
    _note_message_in(_set_client_identity(o, ClientIdOfText(_extract_client_id(obj))), size)

\* _rekey_stats_map: the records go under the id they carry, those of one id
\* merged (the counters of the result do not depend on the order).
RECURSIVE MergeRecords(_, _)
MergeRecords(m, ids) ==
    Bind(CHOOSE id \in ids : \A other \in ids : id <= other, LAMBDA first :
        IF ids = {first} THEN m[first]
        ELSE _merge_client_stats(m[first], MergeRecords(m, ids \ {first})))

_rekey_stats_map(m) ==
    [key \in {m[id].client_id : id \in DOMAIN m} |->
        MergeRecords(m, {id \in DOMAIN m : m[id].client_id = key})]

ConnectedClientsAll(clients) == Cardinality(DOMAIN clients)

\* The number of connected clients of a snapshot
ConnectedClients(clients) == Cardinality({id \in DOMAIN clients : clients[id].connected})

\* ThreadedServer.get_client_stats (the averages and the durations of a
\* snapshot are left out)
ThreadedServer_get_client_stats(o) ==
    Bind(_rekey_stats_map(o.stats), LAMBDA clients :
        [connected_clients |-> ConnectedClients(clients), clients |-> clients])

\* ThreadedServer._record_client_start, the peer's address being addr
_record_client_start(o, addr) == _note_connect([o EXCEPT !.cid = addr], addr)

\* ThreadedServer._clear_client_stats
_clear_client_stats(o) == [o EXCEPT !.cid = NoClient, !.active = NoClient]

\* The read timeouts counted for the active client of o.
TimeoutsOf(o) ==
    Bind(_get_active_client_id(o), LAMBDA id :
        IF id \in DOMAIN o.stats THEN o.stats[id].failures["timeout"] ELSE 0)

(***************************************************************************)
(* jsocket_base: closing the sockets of an endpoint.  open tells which of  *)
(* the endpoint's sockets are open, cn is its conn, 0 the socket it was    *)
(* constructed with.                                                       *)
(***************************************************************************)
_sendAhead(out, msg) == msg \o out

\* JsonSocket._send on a connection the peer has open: the bytes follow
\* those already written.
_send(out, msg) == out \o msg

\* JsonSocket._close_connection
\* A faulty _close_connection: the connection is left open.
JsonSocket_close_connectionNever(cn, open) == open

JsonSocket_close_connection(cn, open) == IF open[cn] THEN [open EXCEPT ![cn] = FALSE] ELSE open

_close_socketToggle(cn, open) == [open EXCEPT ![0] = ~@]

\* JsonSocket._close_socket
_close_socket(cn, open) == IF open[0] THEN [open EXCEPT ![0] = FALSE] ELSE open

\* JsonSocket.close
close(cn, open) == _close_socket(cn, JsonSocket_close_connection(cn, open))

CloseEverySocket(cn, open) == [k \in DOMAIN open |-> open[k] /\ k # cn /\ k # 0]

\* JsonServer._close_connection: the listening socket is left alone.
JsonServer_close_connection(cn, open) ==
    IF cn # 0 /\ open[cn] THEN [open EXCEPT ![cn] = FALSE] ELSE open

\* JsonServer.close
JsonServer_close(cn, open) == _close_socket(cn, JsonServer_close_connection(cn, open))

KeepConnectionRef(cn) == cn

\* JsonServer._reset_connection_ref: conn is the listening socket again
_reset_connection_ref(cn) == 0

IsOpenConn(cn, open) == open[cn]

\* JsonServer._is_connected
_is_connected(cn, open) == cn # 0 /\ open[cn]

(***************************************************************************)
(* The clients of a server: raw TCP peers and JsonClients alike connect,   *)
(* write frames or parts of frames, and close.                             *)
(***************************************************************************)
EchoValue == JDict(<< <<101, 99, 104, 111>> >>, <<JStr(<<104, 105>>)>>)

\* What a client writes in one go: a frame the handler answers, a
\* well-framed payload that is not JSON, the beginning of a header.
ClientWrites ==
    { FrameOf(Payload(EchoValue)),
      FrameOf(<<110, 111, 116, 45, 106, 115, 111, 110>>),
      SubSeq(FrameOf(Payload(EchoValue)), 1, 5) }

\* connect(): the connection is made as soon as the server listens, before
\* it is accepted.  The clients are numbered in the order they connect.
ClientConnect(c) ==
    /\ chan[c].st = "new"
    /\ \A d \in Clients : d < c => chan[d].st # "new"
    /\ lsn.listening /\ sock_open[0]
    /\ chan' = [chan EXCEPT ![c].st = "queued", ![c].open = TRUE]
    /\ lsn' = [lsn EXCEPT !.backlog = Append(@, c)]
    /\ UNCHANGED <<is_alive, srv_pc, conn, sock_open, wake, ctl, srv_stats>>
    /\ UNCHANGED <<codecVars, factoryVars, clientVars, heapVars, lockVars>>

\* The writes all the clients have made.
TotalWrites ==
    LET sum[c \in 0..MaxClients] == IF c = 0 THEN 0 ELSE sum[c - 1] + chan[c].writes
    IN  sum[MaxClients]

ClientWrite(c, bs) ==
    /\ chan[c].open
    /\ TotalWrites < MaxWrites
    /\ chan' = [chan EXCEPT ![c].c2s = IF chan[c].st = "closed" THEN @ ELSE @ \o bs,
                            ![c].writes = @ + 1]
    /\ UNCHANGED <<is_alive, srv_pc, conn, sock_open, lsn, wake, ctl, srv_stats>>
    /\ UNCHANGED <<codecVars, factoryVars, clientVars, heapVars, lockVars>>

\* A write of a client of a factory server.
WorkerClientWrite(c, bs) ==
    /\ TotalWrites < MaxWorkerWrites
    /\ ClientWrite(c, bs)

ClientClose(c) ==
    /\ chan[c].open
    /\ chan' = [chan EXCEPT ![c].open = FALSE]
    /\ UNCHANGED <<is_alive, srv_pc, conn, sock_open, lsn, wake, ctl, srv_stats>>
    /\ UNCHANGED <<codecVars, factoryVars, clientVars, heapVars, lockVars>>

(***************************************************************************)
(* ThreadedServer: start() and stop(), called by the thread that owns the  *)
(* server.                                                                 *)
(***************************************************************************)
\* start(): _is_alive = True, then Thread.start(), which returns once the
\* new thread exists; run() has not begun.
Start ==
    /\ ctl.pc = "new"
    /\ is_alive' = TRUE
    /\ srv_pc' = "run"
    /\ ctl' = [ctl EXCEPT !.pc = "idle"]
    /\ UNCHANGED <<conn, sock_open, lsn, wake, chan, srv_stats>>
    /\ UNCHANGED <<codecVars, factoryVars, clientVars, heapVars, lockVars>>

\* stop(), first statement: _is_alive = False
StopFlag ==
    /\ ctl.pc = "idle"
    /\ ctl.stops < MaxStops
    /\ is_alive' = FALSE
    /\ ctl' = [ctl EXCEPT !.pc = "signal"]
    /\ UNCHANGED <<srv_pc, conn, sock_open, lsn, wake, chan, srv_stats>>
    /\ UNCHANGED <<codecVars, factoryVars, clientVars, heapVars, lockVars>>

\* _signal_wakeup(): one byte to the wakeup pair, unless it is closed
_signal_wakeup(w) == IF w.open THEN [w EXCEPT !.bytes = @ + 1] ELSE w

\* ThreadedServer.stop(), second statement, and its return
StopSignal ==
    /\ ctl.pc = "signal"
    /\ wake' = _signal_wakeup(wake)
    /\ ctl' = [pc |-> "idle", stops |-> ctl.stops + 1]
    /\ UNCHANGED <<is_alive, srv_pc, conn, sock_open, lsn, chan, srv_stats>>
    /\ UNCHANGED <<codecVars, factoryVars, clientVars, heapVars, lockVars>>

(***************************************************************************)
(* ThreadedServer.run(), the server thread.                                *)
(***************************************************************************)
\* run(): "if not self._is_alive: self._is_alive = True"
RunEnter ==
    /\ srv_pc = "run"
    /\ is_alive' = TRUE
    /\ srv_pc' = "loop"
    /\ UNCHANGED <<conn, sock_open, lsn, wake, chan, ctl, srv_stats>>
    /\ UNCHANGED <<codecVars, factoryVars, clientVars, heapVars, lockVars>>

\* run(): "while self._is_alive"
RunLoop ==
    /\ srv_pc = "loop"
    /\ srv_pc' = IF is_alive THEN "accept" ELSE "close"
    /\ UNCHANGED <<is_alive, conn, sock_open, lsn, wake, chan, ctl, srv_stats>>
    /\ UNCHANGED <<codecVars, factoryVars, clientVars, heapVars, lockVars>>

\* _wait_for_accept() up to select: _listen(), then "while self._is_alive".
\* Listening on a closed socket is an OSError, and False is returned.
WaitForAccept ==
    /\ srv_pc = "accept"
    /\ IF ~sock_open[0] \/ ~wake.open
       THEN /\ srv_pc' = "loop"
            /\ UNCHANGED lsn
       ELSE /\ lsn' = [lsn EXCEPT !.listening = TRUE]
            /\ srv_pc' = IF is_alive THEN "select" ELSE "loop"
    /\ UNCHANGED <<is_alive, conn, sock_open, wake, chan, ctl, srv_stats>>
    /\ UNCHANGED <<codecVars, factoryVars, clientVars, heapVars, lockVars>>

\* _drain_wakeup()
_drain_wakeup(w) == [w EXCEPT !.bytes = 0]

\* select() returns with the wakeup socket readable: it is drained, and
\* _accept_client() returns False.
SelectWake ==
    /\ srv_pc = "select"
    /\ wake.bytes > 0
    /\ wake' = _drain_wakeup(wake)
    /\ srv_pc' = "loop"
    /\ UNCHANGED <<is_alive, conn, sock_open, lsn, chan, ctl, srv_stats>>
    /\ UNCHANGED <<codecVars, factoryVars, clientVars, heapVars, lockVars>>

\* select() returns with the listening socket alone readable:
\* accept_connection(), then _record_client_start().
AcceptClient ==
    /\ srv_pc = "select"
    /\ wake.bytes = 0
    /\ lsn.backlog # <<>>
    /\ \E c \in {Head(lsn.backlog)} :
        /\ conn' = c
        /\ sock_open' = [sock_open EXCEPT ![c] = TRUE]
        /\ chan' = [chan EXCEPT ![c].st = "accepted"]
        /\ srv_stats' = _record_client_start(srv_stats, c)
    /\ lsn' = [lsn EXCEPT !.backlog = Tail(@)]
    /\ srv_pc' = "session"
    /\ UNCHANGED <<is_alive, wake, ctl>>
    /\ UNCHANGED <<codecVars, factoryVars, clientVars, heapVars, lockVars>>

\* What the handler does with a message: it returns None, returns the
\* message, or raises.
HandlerOutcomes == {"none", "echo", "raise"}

\* The end of _handle_client_messages(): _note_disconnect(), then
\* _clear_client_stats().
EndSession(o) == _clear_client_stats(_note_disconnect(o))

\* One turn of _handle_client_messages()'s loop, or its end: h is what the
\* handler does with the message read; conn.send may fail once the peer has
\* closed.
HandleClientMessages(h) ==
    /\ srv_pc = "session"
    /\ IF ~is_alive
       THEN /\ srv_stats' = EndSession(srv_stats)
            /\ srv_pc' = "loop"
            /\ UNCHANGED <<sock_open, chan>>
       ELSE IF ~sock_open[conn]
       THEN \* recv on a closed socket: OSError
            /\ srv_stats' = EndSession(_note_failure(srv_stats, "handler"))
            /\ sock_open' = JsonServer_close_connection(conn, sock_open)
            /\ srv_pc' = "loop"
            /\ UNCHANGED chan
       ELSE \E r \in {read_obj(chan[conn].c2s, ~chan[conn].open, DEFAULT_MAX_MESSAGE_SIZE)} :
            IF r.kind = "timeout"
            THEN /\ TimeoutsOf(srv_stats) < MaxTimeouts
                 /\ srv_stats' = _note_failure(srv_stats, "timeout")
                 /\ UNCHANGED <<srv_pc, sock_open, chan>>
            ELSE IF r.kind = "framing"
            THEN /\ srv_stats' = EndSession(_note_failure(srv_stats, _framing_failure_kind(r.msg)))
                 /\ sock_open' = JsonServer_close_connection(conn, sock_open)
                 /\ chan' = [chan EXCEPT ![conn].c2s = <<>>]
                 /\ srv_pc' = "loop"
            ELSE IF r.kind = "broken"
            THEN /\ srv_stats' = EndSession(srv_stats)
                 /\ sock_open' = JsonServer_close_connection(conn, sock_open)
                 /\ chan' = [chan EXCEPT ![conn].c2s = <<>>]
                 /\ srv_pc' = "loop"
            ELSE \E send_fails \in BOOLEAN :
            IF h = "raise"
            THEN /\ srv_stats' = EndSession(_note_failure(NoteMessageRead(srv_stats, r.value, r.size), "handler"))
                 /\ sock_open' = JsonServer_close_connection(conn, sock_open)
                 /\ chan' = [chan EXCEPT ![conn].c2s = <<>>]
                 /\ srv_pc' = "loop"
            ELSE IF h = "none"
            THEN /\ srv_stats' = NoteMessageRead(srv_stats, r.value, r.size)
                 /\ chan' = [chan EXCEPT ![conn].c2s = r.rest]
                 /\ UNCHANGED <<srv_pc, sock_open>>
            ELSE IF send_fails /\ ~chan[conn].open
            THEN /\ srv_stats' = EndSession(_note_failure(NoteMessageRead(srv_stats, r.value, r.size), "bad_write"))
                 /\ sock_open' = JsonServer_close_connection(conn, sock_open)
                 /\ chan' = [chan EXCEPT ![conn].c2s = <<>>]
                 /\ srv_pc' = "loop"
            ELSE \E payload \in {Payload(r.value)} :
                 /\ srv_stats' = _note_message_out(NoteMessageRead(srv_stats, r.value, r.size), Len(payload))
                 /\ chan' = [chan EXCEPT ![conn].c2s = r.rest,
                                         ![conn].s2c = IF chan[conn].open THEN _send(@, FrameOf(payload)) ELSE @]
                 /\ UNCHANGED <<srv_pc, sock_open>>
    /\ UNCHANGED <<is_alive, conn, lsn, wake, ctl>>
    /\ UNCHANGED <<codecVars, factoryVars, clientVars, heapVars, lockVars>>

\* _close_wakeup()
_close_wakeup(w) == [open |-> FALSE, bytes |-> 0]

\* The end of run(): close(), then _close_wakeup().  The clients not yet
\* accepted lose their connection.
RunClose ==
    /\ srv_pc = "close"
    /\ sock_open' = JsonServer_close(conn, sock_open)
    /\ lsn' = [listening |-> FALSE, backlog |-> <<>>]
    /\ chan' = [c \in Clients |-> IF chan[c].st = "queued" THEN [chan[c] EXCEPT !.st = "reset"] ELSE chan[c]]
    /\ wake' = _close_wakeup(wake)
    /\ srv_pc' = "done"
    /\ UNCHANGED <<is_alive, conn, ctl, srv_stats>>
    /\ UNCHANGED <<codecVars, factoryVars, clientVars, heapVars, lockVars>>

ServerThread ==
    \/ RunEnter
    \/ RunLoop
    \/ WaitForAccept
    \/ SelectWake
    \/ AcceptClient
    \/ \E h \in HandlerOutcomes : HandleClientMessages(h)
    \/ RunClose

InitServer == CodecIdle /\ raw = FALSE /\ ServerIdle /\ FactoryIdle /\ ClientIdle /\ HeapIdle /\ LocksIdle

NextServer ==
    \/ Start
    \/ StopFlag
    \/ StopSignal
    \/ ServerThread
    \/ \E c \in Clients : ClientConnect(c)
    \/ \E c \in Clients, bs \in ClientWrites : ClientWrite(c, bs)
    \/ \E c \in Clients : ClientClose(c)

SpecServer == InitServer /\ [][NextServer]_vars

\* The server thread runs whenever it can; its owner and its clients may
\* stay idle for ever.
FairSpecServer == SpecServer /\ WF_vars(ServerThread)

(***************************************************************************)
(* ServerFactoryThread: the worker a ServerFactory hands a connection to.  *)
(* Worker c serves client c; its socket and its conn are the one socket    *)
(* accepted from c.                                                        *)
(***************************************************************************)
\* ServerFactoryThread.swap_socket: the socket is taken, the peer's address
\* becomes _client_id, and the connect is counted.
swap_socket(w, new_sock) == [w EXCEPT !.o = _note_connect([w.o EXCEPT !.cid = new_sock], new_sock)]

\* ServerFactoryThread.start: _is_alive = True, then Thread.start()
ServerFactoryThread_start(w) == [w EXCEPT !.is_alive = TRUE, !.pc = "run"]

\* ServerFactoryThread.force_stop
force_stop(w) == [w EXCEPT !.is_alive = FALSE]

\* Thread.is_alive(): started and run() not yet returned
Thread_is_alive(w) == w.pc = "run"

\* A faulty end of the loop: the worker notes the fault and goes on.
WorkerGoesOn(w, o) == [w EXCEPT !.o = o]

\* The end of ServerFactoryThread.run(), reached by a break (after
\* "_is_alive = False") or by the loop's condition: _note_disconnect(); the
\* thread is over.
WorkerDone(w, o) == [w EXCEPT !.pc = "dead", !.is_alive = FALSE, !.o = _note_disconnect(o)]

\* One turn of ServerFactoryThread.run()'s loop, or its end with
\* _close_connection() and _close_socket(): h is what the handler does,
\* send_fails whether conn.send fails (the peer has closed).
WorkerRun(c, h) ==
    /\ wk[c].pc = "run"
    /\ IF ~wk[c].is_alive
       THEN /\ wk' = [wk EXCEPT ![c] = WorkerDone(@, @.o)]
            /\ sock_open' = JsonSocket_close_connection(c, sock_open)
            /\ UNCHANGED chan
       ELSE \E r \in {read_obj(chan[c].c2s, ~chan[c].open, DEFAULT_MAX_MESSAGE_SIZE)} :
            IF r.kind = "timeout"
            THEN /\ \A d \in Clients : TimeoutsOf(wk[d].o) < MaxTimeouts
                 /\ wk' = [wk EXCEPT ![c].o = _note_failure(@, "timeout")]
                 /\ UNCHANGED <<sock_open, chan>>
            ELSE IF r.kind = "framing"
            THEN /\ wk' = [wk EXCEPT ![c] = WorkerDone(@, _note_failure(@.o, _framing_failure_kind(r.msg)))]
                 /\ sock_open' = JsonSocket_close_connection(c, sock_open)
                 /\ chan' = [chan EXCEPT ![c].c2s = <<>>]
            ELSE IF r.kind = "broken"
            THEN /\ wk' = [wk EXCEPT ![c] = WorkerDone(@, @.o)]
                 /\ sock_open' = JsonSocket_close_connection(c, sock_open)
                 /\ chan' = [chan EXCEPT ![c].c2s = <<>>]
            ELSE \E send_fails \in BOOLEAN :
            IF h = "raise"
            THEN /\ wk' = [wk EXCEPT ![c] = WorkerDone(@, _note_failure(NoteMessageRead(@.o, r.value, r.size), "handler"))]
                 /\ sock_open' = JsonSocket_close_connection(c, sock_open)
                 /\ chan' = [chan EXCEPT ![c].c2s = <<>>]
            ELSE IF h = "none"
            THEN /\ wk' = [wk EXCEPT ![c].o = NoteMessageRead(@, r.value, r.size)]
                 /\ chan' = [chan EXCEPT ![c].c2s = r.rest]
                 /\ UNCHANGED sock_open
            ELSE IF send_fails /\ ~chan[c].open
            THEN /\ wk' = [wk EXCEPT ![c] = WorkerDone(@, _note_failure(NoteMessageRead(@.o, r.value, r.size), "bad_write"))]
                 /\ sock_open' = JsonSocket_close_connection(c, sock_open)
                 /\ chan' = [chan EXCEPT ![c].c2s = <<>>]
            ELSE \E payload \in {Payload(r.value)} :
                 /\ wk' = [wk EXCEPT ![c].o = _note_message_out(NoteMessageRead(@, r.value, r.size), Len(payload))]
                 /\ chan' = [chan EXCEPT ![c].c2s = r.rest,
                                         ![c].s2c = IF chan[c].open THEN _send(@, FrameOf(payload)) ELSE @]
                 /\ UNCHANGED sock_open
    /\ UNCHANGED <<is_alive, srv_pc, conn, lsn, wake, ctl, srv_stats, threads, fac>>
    /\ UNCHANGED <<codecVars, clientVars, heapVars, lockVars>>

(***************************************************************************)
(* ServerFactory: the worker list and the archive of finished workers.     *)
(***************************************************************************)
\* A faulty marking: the record goes to the archive as connected.
ArchivedStatsConnected(stats) ==
    [key \in DOMAIN stats |-> IF key = "connected" THEN TRUE ELSE stats[key]]

\* _archive_thread_stats, "for stats in stats_map.values()": connected =
\* False and _connected_since = None (a record of a server whose clock is
\* not modelled has no _connected_since).
ArchivedStats(stats) ==
    [key \in DOMAIN stats |->
        CASE key = "connected" -> FALSE
          [] key = "_connected_since" -> NoTime
          [] OTHER -> stats[key]]

\* _archive_thread_stats: the statistics of a finished worker, marked
\* disconnected, are added to the archive, once.
_archive_thread_stats(archive, w) ==
    IF w.archived THEN archive
    ELSE [id \in DOMAIN archive \cup DOMAIN w.o.stats |->
            IF id \notin DOMAIN w.o.stats THEN archive[id]
            ELSE IF id \notin DOMAIN archive THEN ArchivedStats(w.o.stats[id])
            ELSE _merge_client_stats(archive[id], ArchivedStats(w.o.stats[id]))]

\* _purge_threads, the list it keeps: the workers still alive
_purge_threads(ts, ws) == SelectSeq(ts, LAMBDA t : Thread_is_alive(ws[t]))

\* _purge_threads, the archive it leaves: every worker of the list that is
\* no longer alive is archived.
RECURSIVE ArchiveDead(_, _, _)
ArchiveDead(archive, ts, ws) ==
    IF ts = <<>> THEN archive
    ELSE IF Thread_is_alive(ws[Head(ts)]) THEN ArchiveDead(archive, Tail(ts), ws)
    ELSE ArchiveDead(_archive_thread_stats(archive, ws[Head(ts)]), Tail(ts), ws)

\* _purge_threads, the workers it leaves: the archived ones are marked
\* (_stats_archived).
MarkArchived(ts, ws) ==
    [c \in Clients |->
        IF (\E i \in 1..Len(ts) : ts[i] = c) /\ ~Thread_is_alive(ws[c])
        THEN [ws[c] EXCEPT !.archived = TRUE] ELSE ws[c]]

NoActiveThreads(ts, ws) == 0

\* _get_num_of_active_threads
_get_num_of_active_threads(ts, ws) == Cardinality({i \in 1..Len(ts) : Thread_is_alive(ws[ts[i]])})

(***************************************************************************)
(* ServerFactory: start() and stop(), called by the thread that owns the   *)
(* server.                                                                 *)
(***************************************************************************)
\* ThreadedServer.start(), inherited
FactoryStart ==
    /\ ctl.pc = "new"
    /\ is_alive' = TRUE
    /\ srv_pc' = "f_run"
    /\ ctl' = [ctl EXCEPT !.pc = "idle"]
    /\ UNCHANGED <<conn, sock_open, lsn, wake, chan, srv_stats, factoryVars>>
    /\ UNCHANGED <<codecVars, clientVars, heapVars, lockVars>>

\* ServerFactory.stop(), first statement: _is_alive = False
FactoryStopFlag ==
    /\ ctl.pc = "idle"
    /\ ctl.stops < MaxStops
    /\ is_alive' = FALSE
    /\ ctl' = [ctl EXCEPT !.pc = "f_signal"]
    /\ UNCHANGED <<srv_pc, conn, sock_open, lsn, wake, chan, srv_stats, factoryVars>>
    /\ UNCHANGED <<codecVars, clientVars, heapVars, lockVars>>

\* ServerFactory.stop(), second statement: _signal_wakeup()
FactoryStopSignal ==
    /\ ctl.pc = "f_signal"
    /\ wake' = _signal_wakeup(wake)
    /\ ctl' = [ctl EXCEPT !.pc = "f_stop_all"]
    /\ UNCHANGED <<is_alive, srv_pc, conn, sock_open, lsn, chan, srv_stats, factoryVars>>
    /\ UNCHANGED <<codecVars, clientVars, heapVars, lockVars>>

\* stop_all(), the head of its loop: the workers of the list that are alive
\* are taken; with none, stop_all() and stop() return.
StopAllSnapshot ==
    /\ ctl.pc = "f_stop_all"
    /\ \E alive \in {_purge_threads(threads, wk)} :
        IF alive = <<>>
        THEN /\ ctl' = [pc |-> "idle", stops |-> ctl.stops + 1]
             /\ UNCHANGED fac
        ELSE /\ ctl' = [ctl EXCEPT !.pc = "f_force"]
             /\ fac' = [fac EXCEPT !.todo = alive]
    /\ UNCHANGED <<is_alive, srv_pc, conn, sock_open, lsn, wake, chan, srv_stats, threads, wk>>
    /\ UNCHANGED <<codecVars, clientVars, heapVars, lockVars>>

\* stop_all(): t.force_stop()
ForceStop ==
    /\ ctl.pc = "f_force"
    /\ wk' = [wk EXCEPT ![Head(fac.todo)] = force_stop(@)]
    /\ ctl' = [ctl EXCEPT !.pc = "f_join"]
    /\ UNCHANGED <<is_alive, srv_pc, conn, sock_open, lsn, wake, chan, srv_stats, threads, fac>>
    /\ UNCHANGED <<codecVars, clientVars, heapVars, lockVars>>

\* stop_all(): t.join() returns once the worker's thread is over; after the
\* last of them, _purge_threads().
Join ==
    /\ ctl.pc = "f_join"
    /\ ~Thread_is_alive(wk[Head(fac.todo)])
    /\ IF Tail(fac.todo) # <<>>
       THEN /\ fac' = [fac EXCEPT !.todo = Tail(@)]
            /\ ctl' = [ctl EXCEPT !.pc = "f_force"]
            /\ UNCHANGED <<threads, wk>>
       ELSE /\ fac' = [fac EXCEPT !.todo = <<>>, !.archive = ArchiveDead(@, threads, wk)]
            /\ threads' = _purge_threads(threads, wk)
            /\ wk' = MarkArchived(threads, wk)
            /\ ctl' = [ctl EXCEPT !.pc = "f_stop_all"]
    /\ UNCHANGED <<is_alive, srv_pc, conn, sock_open, lsn, wake, chan, srv_stats>>
    /\ UNCHANGED <<codecVars, clientVars, heapVars, lockVars>>

Stopper ==
    \/ FactoryStopSignal
    \/ StopAllSnapshot
    \/ ForceStop
    \/ Join

(***************************************************************************)
(* ServerFactory.run(), the server thread.                                 *)
(***************************************************************************)
\* run(): "if not self._is_alive: self._is_alive = True"
FactoryRunEnter ==
    /\ srv_pc = "f_run"
    /\ is_alive' = TRUE
    /\ srv_pc' = "f_outer"
    /\ UNCHANGED <<conn, sock_open, lsn, wake, chan, ctl, srv_stats, factoryVars>>
    /\ UNCHANGED <<codecVars, clientVars, heapVars, lockVars>>

\* run(): the outer "while self._is_alive", and _purge_threads()
FactoryOuter ==
    /\ srv_pc = "f_outer"
    /\ IF is_alive
       THEN /\ threads' = _purge_threads(threads, wk)
            /\ wk' = MarkArchived(threads, wk)
            /\ fac' = [fac EXCEPT !.archive = ArchiveDead(@, threads, wk)]
            /\ srv_pc' = "f_inner"
       ELSE /\ srv_pc' = "f_wait"
            /\ UNCHANGED factoryVars
    /\ UNCHANGED <<is_alive, conn, sock_open, lsn, wake, chan, ctl, srv_stats>>
    /\ UNCHANGED <<codecVars, clientVars, heapVars, lockVars>>

\* run(): the inner "while not self.connected and self._is_alive"
FactoryInner ==
    /\ srv_pc = "f_inner"
    /\ srv_pc' = IF ~_is_connected(conn, sock_open) /\ is_alive THEN "f_accept" ELSE "f_outer"
    /\ UNCHANGED <<is_alive, conn, sock_open, lsn, wake, chan, ctl, srv_stats, factoryVars>>
    /\ UNCHANGED <<codecVars, clientVars, heapVars, lockVars>>

\* _wait_for_accept() up to select, as in ThreadedServer
FactoryWaitForAccept ==
    /\ srv_pc = "f_accept"
    /\ IF ~sock_open[0] \/ ~wake.open
       THEN /\ srv_pc' = "f_inner"
            /\ UNCHANGED lsn
       ELSE /\ lsn' = [lsn EXCEPT !.listening = TRUE]
            /\ srv_pc' = IF is_alive THEN "f_select" ELSE "f_inner"
    /\ UNCHANGED <<is_alive, conn, sock_open, wake, chan, ctl, srv_stats, factoryVars>>
    /\ UNCHANGED <<codecVars, clientVars, heapVars, lockVars>>

\* select() returns with the wakeup socket readable: it is drained, and the
\* inner loop continues.
FactorySelectWake ==
    /\ srv_pc = "f_select"
    /\ wake.bytes > 0
    /\ wake' = _drain_wakeup(wake)
    /\ srv_pc' = "f_inner"
    /\ UNCHANGED <<is_alive, conn, sock_open, lsn, chan, ctl, srv_stats, factoryVars>>
    /\ UNCHANGED <<codecVars, clientVars, heapVars, lockVars>>

\* select() returns with the listening socket alone readable:
\* accept_connection(), "accepted_conn = self.conn", _reset_connection_ref().
FactoryAccept ==
    /\ srv_pc = "f_select"
    /\ wake.bytes = 0
    /\ lsn.backlog # <<>>
    /\ \E c \in {Head(lsn.backlog)} :
        /\ fac' = [fac EXCEPT !.accepted = c]
        /\ sock_open' = [sock_open EXCEPT ![c] = TRUE]
        /\ chan' = [chan EXCEPT ![c].st = "accepted"]
        /\ conn' = _reset_connection_ref(c)
    /\ lsn' = [lsn EXCEPT !.backlog = Tail(@)]
    /\ srv_pc' = "f_check"
    /\ UNCHANGED <<is_alive, wake, ctl, srv_stats, threads, wk>>
    /\ UNCHANGED <<codecVars, clientVars, heapVars, lockVars>>

\* run(): "if not self._is_alive": the accepted connection is shut down and
\* closed, and the inner loop is left; otherwise the worker is to be made.
FactoryCheck ==
    /\ srv_pc = "f_check"
    /\ IF ~is_alive
       THEN /\ sock_open' = [sock_open EXCEPT ![fac.accepted] = FALSE]
            /\ fac' = [fac EXCEPT !.accepted = NoClient]
            /\ srv_pc' = "f_outer"
       ELSE /\ srv_pc' = "f_spawn"
            /\ UNCHANGED <<sock_open, fac>>
    /\ UNCHANGED <<is_alive, conn, lsn, wake, chan, ctl, srv_stats, threads, wk>>
    /\ UNCHANGED <<codecVars, clientVars, heapVars, lockVars>>

\* A faulty handler of the failure: the accepted connection is left open.
FactorySpawnLeaks(raises) ==
    /\ srv_pc = "f_spawn"
    /\ IF raises
       THEN /\ fac' = [fac EXCEPT !.accepted = NoClient]
            /\ srv_pc' = "f_inner"
            /\ UNCHANGED <<wk, sock_open>>
       ELSE /\ wk' = [wk EXCEPT ![fac.accepted] = ServerFactoryThread_start(swap_socket(@, fac.accepted))]
            /\ srv_pc' = "f_append"
            /\ UNCHANGED <<sock_open, fac>>
    /\ UNCHANGED <<is_alive, conn, lsn, wake, chan, ctl, srv_stats, threads>>
    /\ UNCHANGED <<codecVars, clientVars, heapVars, lockVars>>

\* run(): the worker is constructed, given the socket and started; if that
\* raises, the accepted connection is closed and the inner loop continues.
FactorySpawn(raises) ==
    /\ srv_pc = "f_spawn"
    /\ IF raises
       THEN /\ sock_open' = [sock_open EXCEPT ![fac.accepted] = FALSE]
            /\ fac' = [fac EXCEPT !.accepted = NoClient]
            /\ srv_pc' = "f_inner"
            /\ UNCHANGED wk
       ELSE /\ wk' = [wk EXCEPT ![fac.accepted] = ServerFactoryThread_start(swap_socket(@, fac.accepted))]
            /\ srv_pc' = "f_append"
            /\ UNCHANGED <<sock_open, fac>>
    /\ UNCHANGED <<is_alive, conn, lsn, wake, chan, ctl, srv_stats, threads>>
    /\ UNCHANGED <<codecVars, clientVars, heapVars, lockVars>>

\* run(): "self._threads.append(tmp)", and the inner loop is left
FactoryAppend ==
    /\ srv_pc = "f_append"
    /\ threads' = Append(threads, fac.accepted)
    /\ fac' = [fac EXCEPT !.accepted = NoClient]
    /\ srv_pc' = "f_outer"
    /\ UNCHANGED <<is_alive, conn, sock_open, lsn, wake, chan, ctl, srv_stats, wk>>
    /\ UNCHANGED <<codecVars, clientVars, heapVars, lockVars>>

\* _wait_to_exit(): it returns once no worker of the list is alive
_wait_to_exit ==
    /\ srv_pc = "f_wait"
    /\ _get_num_of_active_threads(threads, wk) = 0
    /\ srv_pc' = "f_close"
    /\ UNCHANGED <<is_alive, conn, sock_open, lsn, wake, chan, ctl, srv_stats, factoryVars>>
    /\ UNCHANGED <<codecVars, clientVars, heapVars, lockVars>>

\* The end of run(): close().  The clients not yet accepted lose their
\* connection.
FactoryClose ==
    /\ srv_pc = "f_close"
    /\ sock_open' = JsonServer_close(conn, sock_open)
    /\ lsn' = [listening |-> FALSE, backlog |-> <<>>]
    /\ chan' = [c \in Clients |-> IF chan[c].st = "queued" THEN [chan[c] EXCEPT !.st = "reset"] ELSE chan[c]]
    /\ srv_pc' = "done"
    /\ UNCHANGED <<is_alive, conn, wake, ctl, srv_stats, factoryVars>>
    /\ UNCHANGED <<codecVars, clientVars, heapVars, lockVars>>

\* ServerFactory.get_client_stats, "combined[client_id] = ..." for the
\* records of one worker
CombineStats(combined, m) ==
    [id \in DOMAIN combined \cup DOMAIN m |->
        IF id \notin DOMAIN m THEN combined[id]
        ELSE IF id \notin DOMAIN combined THEN m[id]
        ELSE _merge_client_stats(combined[id], m[id])]

\* ServerFactory.get_client_stats, "for t in alive": the records of the
\* workers found alive are added to those of the archive.
RECURSIVE CombineThreads(_, _, _)
CombineThreads(combined, alive, ws) ==
    IF alive = <<>> THEN combined
    ELSE CombineThreads(CombineStats(combined, ws[Head(alive)].o.stats), Tail(alive), ws)

\* ServerFactory.get_client_stats, what it returns, given the archive and
\* the workers it found alive (the averages and the durations of a
\* snapshot are left out).
ServerFactory_get_client_stats(archive, alive, ws) ==
    Bind(_rekey_stats_map(CombineThreads(archive, alive, ws)), LAMBDA clients :
        [connected_clients |-> ConnectedClients(clients), clients |-> clients])

\* get_client_stats(), called by any thread while the factory runs, up to
\* "alive = [...]", no other thread running meanwhile: the finished workers
\* of the list are archived.  (GetClientStatsList, GetClientStatsTest and
\* GetClientStatsMerge are the same statements one at a time.)
GetClientStatsArchive ==
    /\ srv_pc \in FactoryPcs
    /\ fac.gs.pc = "idle"
    /\ fac' = [fac EXCEPT !.archive = ArchiveDead(@, threads, wk),
                          !.gs = [NoSnapshotCall EXCEPT !.pc = "combine", !.alive = _purge_threads(threads, wk)]]
    /\ wk' = MarkArchived(threads, wk)
    /\ UNCHANGED <<is_alive, srv_pc, conn, sock_open, lsn, wake, chan, ctl, srv_stats, threads>>
    /\ UNCHANGED <<codecVars, clientVars, heapVars, lockVars>>

\* get_client_stats(): "threads = list(self._threads)"
GetClientStatsList ==
    /\ srv_pc \in FactoryPcs
    /\ fac.gs.pc = "idle"
    /\ fac' = [fac EXCEPT !.gs = [pc |-> "archive", threads |-> threads, todo |-> threads, alive |-> <<>>]]
    /\ UNCHANGED <<is_alive, srv_pc, conn, sock_open, lsn, wake, chan, ctl, srv_stats, threads, wk>>
    /\ UNCHANGED <<codecVars, clientVars, heapVars, lockVars>>

\* get_client_stats(), "for t in threads: if not t.is_alive():
\* self._archive_thread_stats(t)" up to the test of _stats_archived, which
\* is made with no lock held; after the last worker, "alive = [...]".
GetClientStatsTest ==
    /\ fac.gs.pc = "archive"
    /\ fac' = IF fac.gs.todo = <<>>
              THEN [fac EXCEPT !.gs = [NoSnapshotCall EXCEPT !.pc = "combine",
                                                             !.alive = _purge_threads(fac.gs.threads, wk)]]
              ELSE IF Thread_is_alive(wk[Head(fac.gs.todo)]) \/ wk[Head(fac.gs.todo)].archived
              THEN [fac EXCEPT !.gs.todo = Tail(@)]
              ELSE [fac EXCEPT !.gs.pc = "merge"]
    /\ UNCHANGED <<is_alive, srv_pc, conn, sock_open, lsn, wake, chan, ctl, srv_stats, threads, wk>>
    /\ UNCHANGED <<codecVars, clientVars, heapVars, lockVars>>

\* get_client_stats(), the rest of _archive_thread_stats(t) for a worker
\* whose _stats_archived was found False: its records are merged into the
\* archive and it is marked.
GetClientStatsMerge ==
    /\ fac.gs.pc = "merge"
    /\ \E t \in {Head(fac.gs.todo)} :
        /\ fac' = [fac EXCEPT !.archive = _archive_thread_stats(@, [wk[t] EXCEPT !.archived = FALSE]),
                              !.gs.pc = "archive",
                              !.gs.todo = Tail(@)]
        /\ wk' = [wk EXCEPT ![t].archived = TRUE]
    /\ UNCHANGED <<is_alive, srv_pc, conn, sock_open, lsn, wake, chan, ctl, srv_stats, threads>>
    /\ UNCHANGED <<codecVars, clientVars, heapVars, lockVars>>

\* get_client_stats(), the rest: it returns
\* ServerFactory_get_client_stats of the archive as it is now and of the
\* records, as they are now, of the workers that were alive.
GetClientStatsCombine ==
    /\ fac.gs.pc = "combine"
    /\ fac' = [fac EXCEPT !.gs = NoSnapshotCall]
    /\ UNCHANGED <<is_alive, srv_pc, conn, sock_open, lsn, wake, chan, ctl, srv_stats, threads, wk>>
    /\ UNCHANGED <<codecVars, clientVars, heapVars, lockVars>>

FactoryThread ==
    \/ FactoryRunEnter
    \/ FactoryOuter
    \/ FactoryInner
    \/ FactoryWaitForAccept
    \/ FactorySelectWake
    \/ FactoryAccept
    \/ FactoryCheck
    \/ \E raises \in BOOLEAN : FactorySpawn(raises)
    \/ FactoryAppend
    \/ _wait_to_exit
    \/ FactoryClose

InitFactory == CodecIdle /\ raw = FALSE /\ ServerIdle /\ FactoryIdle /\ ClientIdle /\ HeapIdle /\ LocksIdle

NextFactory ==
    \/ FactoryStart
    \/ FactoryStopFlag
    \/ Stopper
    \/ FactoryThread
    \/ \E c \in Clients, h \in HandlerOutcomes : WorkerRun(c, h)
    \/ \E c \in Clients : ClientConnect(c)
    \/ \E c \in Clients, bs \in ClientWrites : WorkerClientWrite(c, bs)
    \/ \E c \in Clients : ClientClose(c)

SpecFactory == InitFactory /\ [][NextFactory]_vars

\* The server thread, the workers and a stop() under way run whenever they
\* can; the owner need not call stop(), and the clients may stay idle for
\* ever.
FairSpecFactory ==
    /\ SpecFactory
    /\ WF_vars(FactoryThread)
    /\ WF_vars(Stopper)
    /\ \A c \in Clients : WF_vars(\E h \in HandlerOutcomes : WorkerRun(c, h))

(***************************************************************************)
(* Properties of the servers.                                              *)
(***************************************************************************)
\* stop() has been called: its first statement has run.
StopCalled == ctl.stops > 0 \/ ctl.pc \notin {"new", "idle"}

\* C1: once start() has returned, a stop() is eventually followed by the
\* server thread leaving its accept loop and terminating.
StopLeadsToExit == (ctl.stops > 0) ~> (srv_pc = "done")

\* C2: with a client attached to a factory server, after stop() has been
\* called the server thread and every worker thread eventually terminate.
FactoryStopTerminates ==
    (StopCalled /\ \E c \in Clients : chan[c].open)
        ~> (srv_pc = "done" /\ \A c \in Clients : ~Thread_is_alive(wk[c]))

\* C3: once stop() has been called on a factory server, no worker is
\* constructed or started for an accepted connection.
NoHandoffAfterStop ==
    [][StopCalled => \A c \in Clients : Thread_is_alive(wk'[c]) => Thread_is_alive(wk[c])]_vars

\* C4: when a factory server's thread has terminated, no worker thread it
\* spawned is alive.
NoWorkerOutlivesServer == srv_pc = "done" => \A c \in Clients : ~Thread_is_alive(wk[c])

\* A factory server's thread has terminated after it spawned two workers.
NoWorkerOutlivesServerWitness ==
    /\ srv_pc = "done"
    /\ \A c \in Clients : wk[c].pc = "dead"

\* C10: the end of a client session of a single-connection server leaves
\* the listening socket open and listening, so the next client is accepted.
ListenerPersists ==
    [][srv_pc = "session" /\ srv_pc' # "session" => sock_open'[0] /\ lsn'.listening]_vars

\* Two clients have been served one after the other, the first one's
\* session being over, with no stop() in between.
ListenerPersistsWitness ==
    /\ ctl.stops = 0 /\ ctl.pc = "idle"
    /\ DOMAIN srv_stats.stats = Clients
    /\ \A c \in Clients : srv_stats.stats[c].messages_out >= 1
    /\ srv_stats.stats[1].disconnects = 1

\* The failures of every kind counted for client id by the owner o.
FailureTotal(o, id) ==
    LET kinds == <<"timeout", "bad_write", "bad_crc", "bad_header", "oversize",
                   "invalid_utf8", "invalid_json", "handler", "framing">>
        sum[i \in 0..Len(kinds)] == IF i = 0 THEN 0 ELSE sum[i - 1] + o.stats[id].failures[kinds[i]]
    IN  IF id \in DOMAIN o.stats THEN sum[Len(kinds)] ELSE 0

\* A session of a running single-connection server ends: the step leaves
\* the message loop while _is_alive is set.
SessionFaults == srv_pc = "session" /\ srv_pc' = "loop" /\ is_alive

\* The server goes on after the end of a session: it is alive, its listener
\* is open, the connection is closed and the disconnect is counted.
BackToAccepting ==
    /\ is_alive' /\ sock_open'[0] /\ lsn'.listening
    /\ ~sock_open'[conn]
    /\ ~srv_stats'.stats[conn].connected
    /\ srv_stats'.stats[conn].disconnects = srv_stats.stats[conn].disconnects + 1

\* C11 as stated: every fault that ends a session (framing fault, handler
\* exception, broken connection, send failure) closes the connection, is
\* recorded as a failure, and leaves the server accepting.
EveryFaultRecorded ==
    [][SessionFaults =>
        /\ BackToAccepting
        /\ FailureTotal(srv_stats', conn) = FailureTotal(srv_stats, conn) + 1]_vars

\* C11, amended: every fault that ends a session closes the connection and
\* leaves the server accepting; a framing fault, a handler exception and a
\* send failure are recorded as one failure, a connection the peer closed
\* between or inside frames is recorded as a disconnect and no failure.
FaultEndsSessionOnly ==
    [][SessionFaults =>
        /\ BackToAccepting
        /\ FailureTotal(srv_stats', conn) = FailureTotal(srv_stats, conn)
             + (IF read_obj(chan[conn].c2s, ~chan[conn].open, DEFAULT_MAX_MESSAGE_SIZE).kind = "broken"
                THEN 0 ELSE 1)]_vars

\* After a client's invalid payload ended its session, the next client has
\* had its message echoed.
FaultEndsSessionOnlyWitness ==
    /\ is_alive /\ ctl.stops = 0 /\ ctl.pc = "idle"
    /\ DOMAIN srv_stats.stats = Clients
    /\ srv_stats.stats[1].failures["invalid_json"] = 1
    /\ srv_stats.stats[1].disconnects = 1
    /\ srv_stats.stats[2].messages_out = 1
    /\ chan[2].s2c = FrameOf(Payload(EchoValue))

\* A factory server whose first client stays idle: it connects and may
\* close, and never writes; the later clients send requests.
NextIdleFirst ==
    \/ FactoryStart
    \/ FactoryStopFlag
    \/ Stopper
    \/ FactoryThread
    \/ \E c \in Clients, h \in HandlerOutcomes : WorkerRun(c, h)
    \/ \E c \in Clients : ClientConnect(c)
    \/ \E c \in Clients \ {1} : WorkerClientWrite(c, FrameOf(Payload(EchoValue)))
    \/ \E c \in Clients : ClientClose(c)

SpecIdleFirst == InitFactory /\ [][NextIdleFirst]_vars

\* The server thread runs whenever it can; the workers, the owner and the
\* clients may be as slow as they like.
FairSpecIdleFirst == SpecIdleFirst /\ WF_vars(FactoryThread)

\* C12: a second client that connects to a running factory server is
\* accepted whatever the first client and its worker do: it does not stay
\* in the backlog (unless stop() is called).
QueuedClientAccepted ==
    (chan[2].st = "queued" /\ ~StopCalled) ~> (chan[2].st # "queued" \/ StopCalled)

\* The first client is attached and has written nothing, the second one
\* has had its request answered by a worker of its own, and both workers
\* are alive.
QueuedClientAcceptedWitness ==
    /\ ~StopCalled
    /\ chan[1].open /\ chan[1].writes = 0 /\ Thread_is_alive(wk[1])
    /\ Thread_is_alive(wk[2])
    /\ wk[2].o.stats[2].messages_out = 1
    /\ chan[2].s2c = FrameOf(Payload(EchoValue))
    /\ _get_num_of_active_threads(threads, wk) >= 2

(***************************************************************************)
(* A single-connection server whose clients send their requests two at a   *)
(* time, the second frame following the first in one write.                *)
(***************************************************************************)
TwoRequests == FrameOf(Payload(EchoValue)) \o FrameOf(Payload(JInt(7)))

NextPipelined ==
    \/ Start
    \/ StopFlag
    \/ StopSignal
    \/ ServerThread
    \/ \E c \in Clients : ClientConnect(c)
    \/ \E c \in Clients : ClientWrite(c, TwoRequests)
    \/ \E c \in Clients : ClientClose(c)

SpecPipelined == InitServer /\ [][NextPipelined]_vars

HandlerReturnsNone ==
    /\ srv_pc = "session" /\ is_alive
    /\ chan' # chan
    /\ srv_pc' = "session"
    /\ HandleClientMessages("none")

\* C14: when the handler returns None for a message, nothing is sent,
\* messages_in is incremented, messages_out is not, connected, connects and
\* disconnects are unchanged, and the loop goes on with the next frame.
NoneReplyCountsInboundOnly ==
    [][HandlerReturnsNone =>
        /\ chan'[conn].s2c = chan[conn].s2c
        /\ chan[conn].c2s # <<>> /\ Len(chan'[conn].c2s) < Len(chan[conn].c2s)
        /\ srv_stats'.stats[conn].messages_in = srv_stats.stats[conn].messages_in + 1
        /\ srv_stats'.stats[conn].messages_out = srv_stats.stats[conn].messages_out
        /\ srv_stats'.stats[conn].connected = srv_stats.stats[conn].connected
        /\ srv_stats'.stats[conn].connects = srv_stats.stats[conn].connects
        /\ srv_stats'.stats[conn].disconnects = srv_stats.stats[conn].disconnects
        /\ srv_stats'.stats[conn].failures = srv_stats.stats[conn].failures
        /\ sock_open' = sock_open /\ conn' = conn]_vars

\* Two frames of a client have been read one after the other, the handler
\* returning None for both: nothing was sent and the client is connected.
NoneReplyCountsInboundOnlyWitness ==
    \E c \in Clients :
        /\ srv_pc = "session" /\ conn = c
        /\ chan[c].writes = 1 /\ chan[c].c2s = <<>> /\ chan[c].s2c = <<>>
        /\ srv_stats.stats[c].messages_in = 2
        /\ srv_stats.stats[c].messages_out = 0
        /\ srv_stats.stats[c].connected

(***************************************************************************)
(* JsonClient.connect(), with close() and the faults that close the        *)
(* client's socket.  Each socket the client has made is "fresh" (open,     *)
(* never connected), "connected", "failed" (open, a connect on it failed)  *)
(* or "closed".                                                            *)
(***************************************************************************)
\* connect() calls on one client
MaxConnects == 2

\* "for attempt in range(1, 11)"
MAX_CONNECT_ATTEMPTS == 10

LastAttemptNever(attempt) == FALSE

\* the loop of connect() ends after this attempt
LastAttempt(attempt) == attempt = MAX_CONNECT_ATTEMPTS

\* JsonSocket._close_socket on a client: the socket, if it is open, is closed
JsonClient_close_socket(j) ==
    IF j.fds[j.sock] # "closed" THEN [j EXCEPT !.fds[j.sock] = "closed"] ELSE j

\* connect()._recreate_socket: _close_socket(), then a new socket
_recreate_socket(j) ==
    [JsonClient_close_socket(j) EXCEPT !.fds = Append(@, "fresh"), !.sock = Len(j.fds) + 1]

NeedsFreshNever(j) == FALSE

\* connect(): "needs_fresh_socket": the socket's fileno() is -1
needs_fresh_socket(j) == j.fds[j.sock] = "closed"

\* connect() is called
Connect ==
    /\ jc.pc = "idle"
    /\ jc.calls < MaxConnects
    /\ jc' = [jc EXCEPT !.pc = "connect", !.attempt = 1, !.made = 0, !.ret = "none",
                        !.tried = "none", !.calls = @ + 1]
    /\ UNCHANGED <<codecVars, serverVars, factoryVars, heapVars, lockVars>>

\* One turn of connect()'s loop: reachable tells whether the server accepts
\* the connection.  A connect on a socket that is not fresh is an OSError.
ConnectAttempt(reachable) ==
    /\ jc.pc = "connect"
    /\ \E j \in {IF needs_fresh_socket(jc) THEN _recreate_socket(jc) ELSE jc} :
        \E tried \in {j.fds[j.sock]} :
            IF reachable /\ tried = "fresh"
            THEN jc' = [j EXCEPT !.fds[j.sock] = "connected", !.pc = "idle", !.ret = "true",
                                 !.made = @ + 1, !.tried = tried]
            ELSE \E k \in {_recreate_socket([j EXCEPT !.fds[j.sock] = IF tried = "closed" THEN "closed" ELSE "failed"])} :
                 IF LastAttempt(j.attempt)
                 THEN jc' = [k EXCEPT !.pc = "idle", !.ret = "false", !.made = @ + 1, !.tried = tried]
                 ELSE jc' = [k EXCEPT !.attempt = @ + 1, !.made = @ + 1, !.tried = tried]
    /\ UNCHANGED <<codecVars, serverVars, factoryVars, heapVars, lockVars>>

\* close() on the client: _close_connection(), then _close_socket()
JsonClientClose ==
    /\ jc.pc = "idle"
    /\ jc' = JsonClient_close_socket(jc)
    /\ jc' # jc
    /\ UNCHANGED <<codecVars, serverVars, factoryVars, heapVars, lockVars>>

\* A send or a read fails on the connected client: _close_connection()
JsonClientFault ==
    /\ jc.pc = "idle"
    /\ jc.fds[jc.sock] = "connected"
    /\ jc' = JsonClient_close_socket(jc)
    /\ UNCHANGED <<codecVars, serverVars, factoryVars, heapVars, lockVars>>

InitClient == CodecIdle /\ raw = FALSE /\ ServerIdle /\ FactoryIdle /\ ClientIdle /\ HeapIdle /\ LocksIdle

NextClient ==
    \/ Connect
    \/ \E reachable \in BOOLEAN : ConnectAttempt(reachable)
    \/ JsonClientClose
    \/ JsonClientFault

SpecClient == InitClient /\ [][NextClient]_vars

\* C15: connect() makes at most 10 attempts; an attempt that succeeds ends
\* it with True, and it ends with False only after 10 failed attempts.
AtMostTenAttempts ==
    [][/\ jc'.made <= MAX_CONNECT_ATTEMPTS
       /\ (jc.pc = "connect" /\ jc'.fds[jc'.sock] = "connected") => (jc'.pc = "idle" /\ jc'.ret = "true")
       /\ (jc.pc = "connect" /\ jc'.pc = "idle") =>
            \/ jc'.ret = "true" /\ jc'.fds[jc'.sock] = "connected"
            \/ jc'.ret = "false" /\ jc'.made = MAX_CONNECT_ATTEMPTS /\ jc'.fds[jc'.sock] = "fresh"
       /\ (jc.pc = "connect" /\ jc'.pc = "connect") => jc'.made = jc.made + 1]_vars

\* connect() has returned False after its 10th failed attempt.
AtMostTenAttemptsWitness == jc.pc = "idle" /\ jc.ret = "false" /\ jc.made = MAX_CONNECT_ATTEMPTS

\* C16: a connect attempt is never made on a closed or failed socket, and
\* between the attempts of connect() the client's socket is a fresh one, the
\* sockets it had before being closed.
FreshSocketPerAttempt ==
    /\ jc.tried \notin {"closed", "failed"}
    /\ (jc.pc = "connect" /\ jc.attempt > 1) => jc.fds[jc.sock] = "fresh"
    /\ \A i \in 1..Len(jc.fds) : i # jc.sock => jc.fds[i] = "closed"

\* The client was connected, lost its socket, and a second connect()
\* succeeded on another socket after a failed attempt.
FreshSocketPerAttemptWitness ==
    /\ jc.calls = 2 /\ jc.pc = "idle" /\ jc.ret = "true" /\ jc.made = 2
    /\ jc.fds[jc.sock] = "connected"
    /\ Len(jc.fds) >= 4

ConnectedTracksConnection ==
    [][/\ (srv_pc = "select" /\ srv_pc' = "session") => _is_connected(conn', sock_open')
       /\ SessionFaults => ~_is_connected(conn', sock_open')
       /\ srv_pc' = "done" => ~_is_connected(conn', sock_open')
       /\ conn' = 0 => ~_is_connected(conn', sock_open')
       /\ _is_connected(conn', sock_open') => sock_open'[conn'] /\ chan'[conn'].st = "accepted"]_vars

\* The first client's session is over and the second client has been
\* accepted: connected is true again.
ConnectedTracksConnectionWitness ==
    /\ srv_pc = "session" /\ conn = 2
    /\ _is_connected(conn, sock_open)
    /\ ~sock_open[1]
    /\ 1 \in DOMAIN srv_stats.stats /\ srv_stats.stats[1].disconnects = 1

\* C19: once the server thread has terminated, the listening socket, the
\* active connection and the wakeup pair are all closed, for the
\* single-connection server and for the factory alike.
ServerTornDown ==
    srv_pc = "done" =>
        /\ ~sock_open[0]
        /\ ~lsn.listening
        /\ \A c \in Clients : ~sock_open[c]
        /\ ~wake.open

(***************************************************************************)
(* The statistics of a server of either kind whose clients name            *)
(* themselves: a message may carry a client id, under "client" or          *)
(* "client_id", and two clients may give the same one.                     *)
(***************************************************************************)
IdentityA == JDict(<<KeyClient>>, <<JStr(<<32, 65, 32>>)>>)

IdentitySeven == JDict(<<KeyClientId>>, <<JInt(7)>>)

IdentityWrites == {FrameOf(Payload(IdentityA)), FrameOf(Payload(IdentitySeven))}

\* What the handler of a worker does here: it sends no reply.
QuietOutcomes == {"none", "raise"}

\* stop() of a single-connection server.  A factory is left running here:
\* its workers end when their clients close or a fault ends the session.
ServerStopFlag == srv_pc \in ServerPcs /\ StopFlag

NextStats ==
    \/ Start
    \/ FactoryStart
    \/ ServerStopFlag
    \/ StopSignal
    \/ ServerThread
    \/ FactoryRunEnter
    \/ FactoryOuter
    \/ FactoryInner
    \/ FactoryWaitForAccept
    \/ FactoryAccept
    \/ FactoryCheck
    \/ \E raises \in BOOLEAN : FactorySpawn(raises)
    \/ FactoryAppend
    \/ \E c \in Clients, h \in QuietOutcomes : WorkerRun(c, h)
    \/ GetClientStatsArchive
    \/ GetClientStatsCombine
    \/ \E c \in Clients : ClientConnect(c)
    \/ \E c \in Clients, bs \in IdentityWrites : ClientWrite(c, bs)
    \/ \E c \in Clients : ClientClose(c)

SpecStats == InitServer /\ [][NextStats]_vars

DisconnectsWithinConnects(m) == \A id \in DOMAIN m : m[id].disconnects <= m[id].connects

\* C20: in every record of a server, of a worker and of the archive, in the
\* snapshot a server's get_client_stats would return now, and in the
\* snapshot a factory's get_client_stats under way is about to return, a
\* client's disconnects are at most its connects.
DisconnectsNeverExceedConnects ==
    /\ DisconnectsWithinConnects(srv_stats.stats)
    /\ \A c \in Clients : DisconnectsWithinConnects(wk[c].o.stats)
    /\ DisconnectsWithinConnects(fac.archive)
    /\ DisconnectsWithinConnects(ThreadedServer_get_client_stats(srv_stats).clients)
    /\ fac.gs.pc = "combine" =>
            DisconnectsWithinConnects(ServerFactory_get_client_stats(fac.archive, fac.gs.alive, wk).clients)

\* Two workers have served clients that both named themselves "A" and are
\* archived under that id; the second was alive when a get_client_stats
\* began and is finished and archived now that it is about to return, so that
\* the snapshot counts it twice.
DisconnectsNeverExceedConnectsWitness ==
    Bind(ClientIdOfText(<<65>>), LAMBDA id :
        /\ fac.gs.pc = "combine"
        /\ fac.gs.alive = <<2>>
        /\ wk[2].archived
        /\ id \in DOMAIN fac.archive
        /\ fac.archive[id].connects = 2
        /\ fac.archive[id].disconnects = 2
        /\ ServerFactory_get_client_stats(fac.archive, fac.gs.alive, wk).clients[id].disconnects = 3)

(***************************************************************************)
(* A server of either kind, left running, whose clients send messages      *)
(* without a client id and messages with one.                              *)
(***************************************************************************)
RekeyWrites == {FrameOf(Payload(EchoValue)), FrameOf(Payload(IdentityA))}

NextRekey ==
    \/ Start
    \/ RunEnter
    \/ RunLoop
    \/ WaitForAccept
    \/ AcceptClient
    \/ \E h \in QuietOutcomes : HandleClientMessages(h)
    \/ FactoryStart
    \/ FactoryRunEnter
    \/ FactoryOuter
    \/ FactoryInner
    \/ FactoryWaitForAccept
    \/ FactoryAccept
    \/ FactoryCheck
    \/ \E raises \in BOOLEAN : FactorySpawn(raises)
    \/ FactoryAppend
    \/ \E c \in Clients, h \in QuietOutcomes : WorkerRun(c, h)
    \/ \E c \in Clients : ClientConnect(c)
    \/ \E c \in Clients, bs \in RekeyWrites : ClientWrite(c, bs)
    \/ \E c \in Clients : ClientClose(c)

SpecRekey == InitServer /\ [][NextRekey]_vars

\* The owner o, whose connection is that of client c, becomes p by a step
\* that takes the record from under the address of c: p has the record under
\* the id of the message at the head of the client's bytes, not under the
\* address, with one message more than the record (and the record that was
\* under the id, if any) had.
RekeyedBy(o, p, c) ==
    (c \in DOMAIN o.stats /\ c \notin DOMAIN p.stats) =>
        \E r \in {read_obj(chan[c].c2s, ~chan[c].open, DEFAULT_MAX_MESSAGE_SIZE)} :
            /\ r.kind = "ok"
            /\ \E x \in {ClientIdOfText(_extract_client_id(r.value))} :
                /\ x # NoClient
                /\ DOMAIN p.stats = (DOMAIN o.stats \ {c}) \cup {x}
                /\ p.stats[x].client_id = x
                /\ p.stats[x].messages_in =
                        o.stats[c].messages_in + 1
                        + (IF x \in DOMAIN o.stats THEN o.stats[x].messages_in ELSE 0)
                /\ \A id \in DOMAIN o.stats \ {c, x} : p.stats[id] = o.stats[id]

\* C21: when a message that carries a client id X arrives on a connection
\* whose earlier messages carried none, the owner (server or worker) is left
\* with one record for the connection, under X, that counts the earlier
\* messages and this one, and with none under the peer's address.
RekeyKeepsOneRecord ==
    [][/\ conn # 0 => RekeyedBy(srv_stats, srv_stats', conn)
       /\ \A c \in Clients : RekeyedBy(wk[c].o, wk'[c].o, c) /\ Cardinality(DOMAIN wk'[c].o.stats) <= 1]_vars

\* A worker has read a message without a client id and then one of "A": its
\* one record is under "A" and counts two messages.
RekeyKeepsOneRecordWitness ==
    /\ DOMAIN wk[1].o.stats = {ClientIdOfText(<<65>>)}
    /\ wk[1].o.stats[ClientIdOfText(<<65>>)].messages_in = 2
    /\ wk[1].o.stats[ClientIdOfText(<<65>>)].bytes_in = Len(Payload(EchoValue)) + Len(Payload(IdentityA))
    /\ wk[1].o.active = ClientIdOfText(<<65>>)

(***************************************************************************)
(* _set_client_identity and _merge_client_stats on records that carry      *)
(* their times: the owner's records are drawn from the records a server    *)
(* can hold (a record is connected exactly when it has a _connected_since, *)
(* it has connected at least once, and the active record is connected).    *)
(***************************************************************************)
\* A record with its keys of time: last_connect_ts is at, the other times
\* follow from the counters.
TimedStats(client_id, connected, connects, messages_in, at) ==
    [_new_client_stats(client_id) EXCEPT
        !.connected = connected,
        !.connects = connects,
        !.disconnects = IF connected THEN connects - 1 ELSE connects,
        !.messages_in = messages_in,
        !.bytes_in = 14 * messages_in,
        !.failures["timeout"] = connects - 1]
    @@ [last_connect_ts |-> at,
        last_disconnect_ts |-> IF connected /\ connects = 1 THEN NoTime ELSE at + 1,
        last_message_ts |-> IF messages_in = 0 THEN NoTime ELSE at,
        total_connected_duration |-> IF connected THEN connects - 1 ELSE connects,
        _connected_since |-> IF connected THEN at ELSE NoTime]

NameA == ClientIdOfText(<<65>>)

NameB == ClientIdOfText(<<66>>)

\* The active record, under the peer's address: connected.
ActiveRecords == {TimedStats(1, TRUE, n, k, at) : n \in 1..2, k \in 0..1, at \in {2, 4}}

\* The records kept under "A"
KeptRecords == {TimedStats(NameA, b, n, k, at) : b \in BOOLEAN, n \in 1..2, k \in 0..1, at \in {1, 3}}

RecordOwners ==
    {[stats |-> 1 :> r, active |-> 1, cid |-> 1] : r \in ActiveRecords}
    \cup {[stats |-> (1 :> r) @@ (NameA :> t), active |-> 1, cid |-> 1] : r \in ActiveRecords, t \in KeptRecords}

InitRecords ==
    /\ CodecIdle /\ raw = FALSE /\ FactoryIdle /\ ClientIdle /\ HeapIdle /\ LocksIdle
    /\ is_alive = FALSE
    /\ srv_pc = "new"
    /\ conn = 0
    /\ sock_open = [k \in 0..MaxClients |-> k = 0]
    /\ lsn = [listening |-> FALSE, backlog |-> <<>>]
    /\ wake = [open |-> TRUE, bytes |-> 0]
    /\ chan = [c \in Clients |->
                [st |-> "new", open |-> FALSE, c2s |-> <<>>, s2c |-> <<>>, writes |-> 0]]
    /\ ctl = [pc |-> "new", stops |-> 0]
    /\ srv_stats \in RecordOwners

\* _set_client_identity(obj, new_client_id)
SetClientIdentity(new_client_id) ==
    /\ srv_stats' = _set_client_identity(srv_stats, new_client_id)
    /\ UNCHANGED <<is_alive, srv_pc, conn, sock_open, lsn, wake, chan, ctl>>
    /\ UNCHANGED <<codecVars, factoryVars, clientVars, heapVars, lockVars>>

NextRecords == \E new_client_id \in {NameA, NameB} : SetClientIdentity(new_client_id)

SpecRecords == InitRecords /\ [][NextRecords]_vars

\* The later of two times, None being no time
Later(a, b) == IF a = NoTime THEN b ELSE IF b = NoTime THEN a ELSE IF a >= b THEN a ELSE b

\* The earlier of two times, None being no time
Earlier(a, b) == IF a = NoTime THEN b ELSE IF b = NoTime THEN a ELSE IF a <= b THEN a ELSE b

\* The sum of the records of m at key
RECURSIVE TotalOf(_, _)
TotalOf(m, key) ==
    IF DOMAIN m = {} THEN 0
    ELSE Bind(CHOOSE id \in DOMAIN m : TRUE, LAMBDA id :
            m[id][key] + TotalOf([k \in DOMAIN m \ {id} |-> m[k]], key))

\* C22: a re-keying of the active record takes it from under its key and
\* leaves the other records as they are; put under an id that has a record,
\* it is merged with it: the counters, the total duration and the failures
\* are the sums, the timestamps the later ones, connected is the OR,
\* _connected_since the earlier one that is not None.  The totals over the
\* records are as before.
RekeyMergesRecords ==
    [][srv_stats' # srv_stats =>
        \E a \in {_get_active_client_id(srv_stats)}, x \in {_get_active_client_id(srv_stats')} :
            /\ a # x
            /\ DOMAIN srv_stats'.stats = (DOMAIN srv_stats.stats \ {a}) \cup {x}
            /\ \A id \in DOMAIN srv_stats.stats \ {a, x} : srv_stats'.stats[id] = srv_stats.stats[id]
            /\ \A key \in CounterKeys \cup {"total_connected_duration"} :
                    TotalOf(srv_stats'.stats, key) = TotalOf(srv_stats.stats, key)
            /\ x \notin DOMAIN srv_stats.stats =>
                    srv_stats'.stats[x] = [srv_stats.stats[a] EXCEPT !.client_id = x]
            /\ x \in DOMAIN srv_stats.stats =>
                    \E d \in {srv_stats.stats[x]}, s \in {srv_stats.stats[a]}, r \in {srv_stats'.stats[x]} :
                        /\ r.client_id = x
                        /\ \A key \in CounterKeys \cup {"total_connected_duration"} : r[key] = d[key] + s[key]
                        /\ \A k \in FailureKinds : r.failures[k] = d.failures[k] + s.failures[k]
                        /\ \A key \in TimestampKeys : r[key] = Later(d[key], s[key])
                        /\ r.connected = (d.connected \/ s.connected)
                        /\ r["_connected_since"] = Earlier(d["_connected_since"], s["_connected_since"])]_vars

\* The active record, connected since 2, has been merged into the record
\* under "A", connected since 3 and last connected at 3.
RekeyMergesRecordsWitness ==
    /\ srv_stats.active = NameA
    /\ DOMAIN srv_stats.stats = {NameA}
    /\ srv_stats.stats[NameA].connects = 4
    /\ srv_stats.stats[NameA].disconnects = 2
    /\ srv_stats.stats[NameA].last_connect_ts = 3
    /\ srv_stats.stats[NameA].last_disconnect_ts = 4
    /\ srv_stats.stats[NameA]["_connected_since"] = 2
    /\ srv_stats.stats[NameA].failures["timeout"] = 2

(***************************************************************************)
(* A factory server whose owner calls get_client_stats() and stop() beside *)
(* the accept loop; the clients connect and close.                         *)
(***************************************************************************)
NextArchive ==
    \/ FactoryStart
    \/ FactoryStopFlag
    \/ Stopper
    \/ FactoryThread
    \/ \E c \in Clients, h \in QuietOutcomes : WorkerRun(c, h)
    \/ GetClientStatsList
    \/ GetClientStatsTest
    \/ GetClientStatsMerge
    \/ GetClientStatsCombine
    \/ \E c \in Clients : ClientConnect(c)
    \/ \E c \in Clients : ClientClose(c)

SpecArchive == InitFactory /\ [][NextArchive]_vars

\* What the archived workers have counted at key for the client id
RECURSIVE ArchivedTotal(_, _, _)
ArchivedTotal(cs, id, key) ==
    IF cs = {} THEN 0
    ELSE Bind(CHOOSE c \in cs : TRUE, LAMBDA c :
            (IF wk[c].archived /\ id \in DOMAIN wk[c].o.stats THEN wk[c].o.stats[id][key] ELSE 0)
            + ArchivedTotal(cs \ {c}, id, key))

\* C23: the archive holds, for every client id, what the workers marked as
\* archived have counted for it, each worker once.
ArchivedExactlyOnce ==
    /\ \A c \in Clients : wk[c].archived => ~Thread_is_alive(wk[c]) /\ DOMAIN wk[c].o.stats \subseteq DOMAIN fac.archive
    /\ \A id \in DOMAIN fac.archive : \A key \in CounterKeys :
            fac.archive[id][key] = ArchivedTotal(Clients, id, key)

\* The client ids of the connected records of the workers of the list ts
AttachedIds(ts, ws) ==
    {id \in UNION {DOMAIN ws[ts[i]].o.stats : i \in 1..Len(ts)} :
        \E i \in 1..Len(ts) : id \in DOMAIN ws[ts[i]].o.stats /\ ws[ts[i]].o.stats[id].connected}

IsServerRead == srv_pc = "session" /\ is_alive /\ sock_open[conn] /\ srv_stats' # srv_stats

\* C26: in a server's message loop, a read that times out with no byte
\* received adds one to failures.timeout, and a read that times out after a
\* part of a frame has arrived adds one to failures.framing and nothing to
\* failures.timeout.
MidMessageTimeoutIsFraming ==
    [][IsServerRead =>
        \E r \in {read_obj(chan[conn].c2s, ~chan[conn].open, DEFAULT_MAX_MESSAGE_SIZE)} :
            /\ r.kind = "timeout" =>
                    /\ chan[conn].c2s = <<>>
                    /\ srv_stats'.stats[conn].failures["timeout"] = srv_stats.stats[conn].failures["timeout"] + 1
            /\ r.kind = "framing" /\ r.msg = MsgReadTimeout =>
                    /\ chan[conn].c2s # <<>>
                    /\ srv_stats'.stats[conn].failures["framing"] = srv_stats.stats[conn].failures["framing"] + 1
                    /\ srv_stats'.stats[conn].failures["timeout"] = srv_stats.stats[conn].failures["timeout"]]_vars

\* The owner o of the connection of client c, reading, becomes p: if the
\* read times out with nothing received, the timeouts of the active client
\* are one more and nothing else has changed; the client is still recorded
\* as connected, and the connection is open as before.
TimeoutCounted(o, p, c) ==
    \E r \in {read_obj(chan[c].c2s, ~chan[c].open, DEFAULT_MAX_MESSAGE_SIZE)} :
        r.kind = "timeout" =>
            \E id \in {_get_active_client_id(o)} :
                /\ id \in DOMAIN o.stats
                /\ p = [o EXCEPT !.stats[id].failures["timeout"] = @ + 1]
                /\ p.stats[id].connected
                /\ sock_open'[c] /\ chan'[c] = chan[c]

\* C27: in the message loop of a server or of a worker, a read that times
\* out with no byte received adds exactly one to failures.timeout of the
\* active client and changes nothing else; the loop goes on.
IdleTimeoutCounted ==
    [][/\ IsServerRead => TimeoutCounted(srv_stats, srv_stats', conn)
       /\ IsServerRead /\ srv_stats'.active = srv_stats.active /\ srv_stats.active # NoClient => srv_pc' = "session"
       /\ \A c \in Clients :
            wk[c].pc = "run" /\ wk[c].is_alive /\ wk'[c] # wk[c] =>
                /\ TimeoutCounted(wk[c].o, wk'[c].o, c)
                /\ wk'[c].o.active = wk[c].o.active /\ wk'[c].o.stats[wk[c].o.active].connected =>
                        wk'[c].pc = "run" /\ wk'[c].is_alive]_vars

\* A worker's read has timed out and its next read has returned a message.
IdleTimeoutCountedWitness ==
    /\ wk[1].pc = "run" /\ wk[1].is_alive
    /\ DOMAIN wk[1].o.stats = {1}
    /\ wk[1].o.stats[1].failures["timeout"] = 1
    /\ wk[1].o.stats[1].messages_in = 1
    /\ wk[1].o.stats[1].connected
    /\ sock_open[1]

\* C28: a read of the server's loop that returns a decoded message adds one
\* to messages_in and the length of the payload to bytes_in, whatever the
\* handler does with the message afterwards; a read that returns none (a
\* frame that fails validation, a timeout, a closed connection) adds to
\* neither.
DecodedFrameCounted ==
    [][IsServerRead =>
        \E r \in {read_obj(chan[conn].c2s, ~chan[conn].open, DEFAULT_MAX_MESSAGE_SIZE)} :
            LET was == srv_stats.stats[conn]
                now == srv_stats'.stats[conn]
            IN  IF r.kind = "ok"
                THEN /\ now.messages_in = was.messages_in + 1
                     /\ now.bytes_in = was.bytes_in + Len(PayloadOn(chan[conn].c2s))
                ELSE /\ now.messages_in = was.messages_in
                     /\ now.bytes_in = was.bytes_in]_vars

\* The first client's message was counted although the handler raised; the
\* second client's frame, not JSON, was not.
DecodedFrameCountedWitness ==
    /\ DOMAIN srv_stats.stats = Clients
    /\ srv_stats.stats[1].failures["handler"] = 1
    /\ srv_stats.stats[1].messages_in = 1
    /\ srv_stats.stats[1].bytes_in = Len(Payload(EchoValue))
    /\ srv_stats.stats[2].failures["invalid_json"] = 1
    /\ srv_stats.stats[2].messages_in = 0
    /\ srv_stats.stats[2].bytes_in = 0

\* C29: a step of the server's loop adds one to messages_out only when the
\* reply has been written in full, and the session goes on; a step that
\* records a send failure adds one to failures.bad_write and to no other
\* counter of failures, closes the connection, ends the session and leaves
\* messages_out as it was.
ReplyCountedAfterSend ==
    [][IsServerRead =>
        LET was == srv_stats.stats[conn]
            now == srv_stats'.stats[conn]
            reply == FrameOf(Payload(read_obj(chan[conn].c2s, ~chan[conn].open, DEFAULT_MAX_MESSAGE_SIZE).value))
        IN  /\ now.messages_out \in {was.messages_out, was.messages_out + 1}
            /\ now.failures["bad_write"] \in {was.failures["bad_write"], was.failures["bad_write"] + 1}
            /\ now.messages_out = was.messages_out + 1 =>
                    /\ chan[conn].open => chan'[conn].s2c = chan[conn].s2c \o reply
                    /\ now.bytes_out = was.bytes_out + Len(reply) - FRAME_HEADER_SIZE
                    /\ now.failures = was.failures
                    /\ sock_open'[conn] /\ srv_pc' = "session"
            /\ now.failures["bad_write"] = was.failures["bad_write"] + 1 =>
                    /\ now.messages_out = was.messages_out
                    /\ now.bytes_out = was.bytes_out
                    /\ chan'[conn].s2c = chan[conn].s2c
                    /\ FailureTotal(srv_stats', conn) = FailureTotal(srv_stats, conn) + 1
                    /\ ~sock_open'[conn] /\ srv_pc' = "loop"
                    /\ ~now.connected /\ now.disconnects = was.disconnects + 1]_vars

\* The reply to the first client could not be sent; the reply to the second
\* was.
ReplyCountedAfterSendWitness ==
    /\ DOMAIN srv_stats.stats = Clients
    /\ srv_stats.stats[1].failures["bad_write"] = 1
    /\ srv_stats.stats[1].messages_in = 1
    /\ srv_stats.stats[1].messages_out = 0
    /\ ~sock_open[1]
    /\ srv_stats.stats[2].messages_out = 1
    /\ chan[2].s2c = FrameOf(Payload(EchoValue))

\* The owner o of the connection of client c, reading, becomes p: if the
\* peer has closed the connection, the active client is recorded as
\* disconnected, once, no counter of failures has changed, and the
\* connection is closed.
BrokenIsDisconnect(o, p, c) ==
    \E r \in {read_obj(chan[c].c2s, ~chan[c].open, DEFAULT_MAX_MESSAGE_SIZE)} :
        r.kind = "broken" =>
            \E id \in {_get_active_client_id(o)} :
                /\ id \in DOMAIN o.stats
                /\ p.stats = [o.stats EXCEPT ![id].connected = FALSE, ![id].disconnects = @ + 1]
                /\ p.stats[id].failures = o.stats[id].failures
                /\ ~sock_open'[c]

\* C30: when the peer closes the connection during a read of a server or of
\* a worker, the session ends, the disconnect is recorded and no counter of
\* failures changes.
BrokenConnectionNoFailure ==
    [][/\ IsServerRead =>
            /\ BrokenIsDisconnect(srv_stats, srv_stats', conn)
            /\ ~chan[conn].open /\ read_obj(chan[conn].c2s, TRUE, DEFAULT_MAX_MESSAGE_SIZE).kind = "broken" =>
                    srv_pc' = "loop"
       /\ \A c \in Clients :
            wk[c].pc = "run" /\ wk[c].is_alive /\ wk'[c] # wk[c] =>
                /\ BrokenIsDisconnect(wk[c].o, wk'[c].o, c)
                /\ ~chan[c].open /\ read_obj(chan[c].c2s, TRUE, DEFAULT_MAX_MESSAGE_SIZE).kind = "broken" =>
                        ~Thread_is_alive(wk'[c])]_vars

\* A worker has read a message, then found the connection closed: one
\* disconnect, no failure.
BrokenConnectionNoFailureWitness ==
    /\ ~Thread_is_alive(wk[1]) /\ wk[1].pc = "dead"
    /\ ~chan[1].open /\ ~sock_open[1]
    /\ DOMAIN wk[1].o.stats = {1}
    /\ wk[1].o.stats[1].messages_in = 1
    /\ wk[1].o.stats[1].disconnects = 1
    /\ ~wk[1].o.stats[1].connected
    /\ FailureTotal(wk[1].o, 1) = 0

(***************************************************************************)
(* The statistics as Python keeps them: dicts on a heap.  A record of      *)
(* statistics is a dict that holds, under "failures", the address of       *)
(* another dict; _client_stats holds the address of each record.  The      *)
(* dicts get_client_stats() builds at the top ("clients" and the one       *)
(* around it) are new at every call and are kept by value.                 *)
(***************************************************************************)
\* the clock stops there
MaxClock == 2

\* get_client_stats() calls
MaxSnapshots == 2

\* the messages read from one client
MaxMessages == 1

\* the size of the payload of the message a client sends
MessageSize == 14

\* A new dict obj on the heap h: the heap and the address of the dict.
Alloc(h, obj) == [heap |-> Append(h, obj), ref |-> Len(h) + 1]

\* The record at address a of h, its failures read through.
Load(h, a) == [h[a] EXCEPT !.failures = h[h[a].failures]]

\* The assignments that make the record at a, and its failures, those of rec.
StoreAt(h, a, rec) ==
    [h EXCEPT ![a] = [rec EXCEPT !.failures = h[a].failures],
              ![h[a].failures] = rec.failures]

\* _new_client_stats(client_id) with its keys of time, on the heap
NewClientStats(h, client_id) ==
    Bind(Alloc(h, _new_failure_counts), LAMBDA f :
        Alloc(f.heap,
              [_new_client_stats(client_id) EXCEPT !.failures = f.ref]
              @@ [total_connected_duration |-> 0, last_connect_ts |-> NoTime,
                  last_disconnect_ts |-> NoTime, last_message_ts |-> NoTime,
                  _connected_since |-> NoTime]))

\* A faulty copy: dict(stats), the failures shared with the original.
_clone_client_statsShallow(h, a) == Alloc(h, h[a])

\* _clone_client_stats(stats): a new dict with the items of stats, its
\* failures a new dict with the items of the failures of stats.
_clone_client_statsRef(h, a) ==
    Bind(Alloc(h, h[h[a].failures]), LAMBDA f :
        Alloc(f.heap, [h[a] EXCEPT !.failures = f.ref]))

\* The least of a set of client ids: the order the dicts are walked in.
FirstOf(ids) == CHOOSE id \in ids : \A other \in ids : id <= other

\* {cid: _clone_client_stats(stats) for cid, stats in m.items()}
RECURSIVE CloneEach(_, _, _)
CloneEach(h, m, ids) ==
    IF ids = {} THEN [heap |-> h, map |-> [k \in {} |-> 0]]
    ELSE Bind(_clone_client_statsRef(h, m[FirstOf(ids)]), LAMBDA c :
            Bind(CloneEach(c.heap, m, ids \ {FirstOf(ids)}), LAMBDA rest :
                [heap |-> rest.heap, map |-> (FirstOf(ids) :> c.ref) @@ rest.map]))

\* _merge_client_stats(dest, src) for a dest that is not empty: dest is
\* changed in place, and so is the dict of its failures.
_merge_client_statsRef(h, dest, src) == StoreAt(h, dest, _merge_client_stats(Load(h, dest), Load(h, src)))

\* _rekey_stats_map(stats_map): the loop over the ids still to do
RECURSIVE RekeyEach(_, _, _, _)
RekeyEach(h, m, ids, rekeyed) ==
    IF ids = {} THEN [heap |-> h, map |-> rekeyed]
    ELSE Bind(FirstOf(ids), LAMBDA client_id :
            Bind(IF h[m[client_id]].client_id # NoClient THEN h[m[client_id]].client_id ELSE client_id, LAMBDA key :
                IF key \in DOMAIN rekeyed
                THEN RekeyEach(_merge_client_statsRef(h, rekeyed[key], m[client_id]), m, ids \ {client_id}, rekeyed)
                ELSE Bind(_clone_client_statsRef(h, m[client_id]), LAMBDA c :
                        RekeyEach([c.heap EXCEPT ![c.ref].client_id = key], m, ids \ {client_id},
                                  rekeyed @@ (key :> c.ref)))))

\* What _format_client_stats makes of a snapshot: the averages, the time
\* connected so far, the total with it; _connected_since is popped.  (A
\* message of the model has MessageSize bytes: the averages are whole.)
_format_client_stats(snapshot, now_mono) ==
    LET current_duration ==
            IF snapshot.connected /\ snapshot._connected_since # NoTime /\ snapshot._connected_since # 0
            THEN now_mono - snapshot._connected_since ELSE 0
    IN  [key \in (DOMAIN snapshot \ {"_connected_since"})
                    \cup {"avg_payload_in", "avg_payload_out", "connected_duration"} |->
            CASE key = "avg_payload_in" ->
                    IF snapshot.messages_in # 0 THEN snapshot.bytes_in \div snapshot.messages_in ELSE 0
              [] key = "avg_payload_out" ->
                    IF snapshot.messages_out # 0 THEN snapshot.bytes_out \div snapshot.messages_out ELSE 0
              [] key = "connected_duration" -> current_duration
              [] key = "total_connected_duration" ->
                    IF snapshot.connected THEN snapshot[key] + current_duration ELSE snapshot[key]
              [] OTHER -> snapshot[key]]

\* {cid: _format_client_stats(stats, now) for cid, stats in m.items()}: each
\* record is cloned, and the clone changed.
RECURSIVE FormatEach(_, _, _, _)
FormatEach(h, m, ids, now) ==
    IF ids = {} THEN [heap |-> h, map |-> [k \in {} |-> 0]]
    ELSE Bind(_clone_client_statsRef(h, m[FirstOf(ids)]), LAMBDA c :
            Bind(FormatEach(StoreAt(c.heap, c.ref, _format_client_stats(Load(c.heap, c.ref), now)),
                            m, ids \ {FirstOf(ids)}, now), LAMBDA rest :
                [heap |-> rest.heap, map |-> (FirstOf(ids) :> c.ref) @@ rest.map]))

\* ThreadedServer.get_client_stats(): the heap it leaves and what it returns.
get_client_stats(h, m, now) ==
    Bind(CloneEach(h, m, DOMAIN m), LAMBDA stats_map :
        Bind(RekeyEach(stats_map.heap, stats_map.map, DOMAIN stats_map.map, [k \in {} |-> 0]), LAMBDA rekeyed :
            Bind(FormatEach(rekeyed.heap, rekeyed.map, DOMAIN rekeyed.map, now), LAMBDA clients :
                [heap |-> clients.heap,
                 result |-> [connected_clients |->
                                Cardinality({id \in DOMAIN clients.map : clients.heap[clients.map[id]].connected}),
                             clients |-> clients.map]])))

\* _get_or_create_stats(obj, client_id): the heap and _client_stats it leaves
GetOrCreateStats(h, m, client_id) ==
    IF client_id \in DOMAIN m THEN [heap |-> h, map |-> m]
    ELSE Bind(NewClientStats(h, client_id), LAMBDA n : [heap |-> n.heap, map |-> m @@ (client_id :> n.ref)])

\* the sessions of the server
MaxSessions == 2

\* The sessions the server has had: the connects of its records.
SessionsSoFar ==
    LET sum[c \in 0..MaxClients] ==
            IF c = 0 THEN 0
            ELSE sum[c - 1] + (IF c \in DOMAIN client_stats THEN heap[client_stats[c]].connects ELSE 0)
    IN  sum[MaxClients]

\* _note_connect(obj, client_id), when the server has accepted client c; the
\* clients are numbered in the order they connect.
NoteConnect(c) ==
    /\ active_client_id = NoClient
    /\ SessionsSoFar < MaxSessions
    /\ \A d \in Clients : d < c => d \in DOMAIN client_stats
    /\ \E g \in {GetOrCreateStats(heap, client_stats, c)} :
        /\ heap' = [g.heap EXCEPT ![g.map[c]].connected = TRUE,
                                  ![g.map[c]].connects = @ + 1,
                                  ![g.map[c]].last_connect_ts = clock,
                                  ![g.map[c]]._connected_since = IF @ = NoTime THEN clock ELSE @]
        /\ client_stats' = g.map
    /\ active_client_id' = c
    /\ UNCHANGED <<clock, returned>>
    /\ UNCHANGED <<codecVars, serverVars, factoryVars, clientVars, lockVars>>

\* _note_disconnect(obj), at the end of a session
NoteDisconnect ==
    /\ active_client_id # NoClient
    /\ \E a \in {client_stats[active_client_id]} :
        IF ~heap[a].connected
        THEN UNCHANGED <<heap, active_client_id>>
        ELSE /\ heap' = [heap EXCEPT ![a].connected = FALSE,
                                     ![a].disconnects = @ + 1,
                                     ![a].last_disconnect_ts = clock,
                                     ![a].total_connected_duration =
                                            IF heap[a]._connected_since # NoTime
                                            THEN @ + (clock - heap[a]._connected_since) ELSE @,
                                     ![a]._connected_since = NoTime]
             /\ active_client_id' = NoClient
    /\ UNCHANGED <<client_stats, clock, returned>>
    /\ UNCHANGED <<codecVars, serverVars, factoryVars, clientVars, lockVars>>

\* _note_message_in(obj, size), a message of the connected client read
NoteMessageIn ==
    /\ active_client_id # NoClient
    /\ \E a \in {client_stats[active_client_id]} :
        /\ heap[a].messages_in < MaxMessages
        /\ heap' = [heap EXCEPT ![a].messages_in = @ + 1,
                                ![a].bytes_in = @ + MessageSize,
                                ![a].last_message_ts = clock]
    /\ UNCHANGED <<client_stats, active_client_id, clock, returned>>
    /\ UNCHANGED <<codecVars, serverVars, factoryVars, clientVars, lockVars>>

\* _note_failure(obj, "timeout"), a read of the session timed out: the dict
\* of the failures is changed in place.
NoteFailure ==
    /\ active_client_id # NoClient
    /\ \E f \in {heap[client_stats[active_client_id]].failures} :
        /\ heap[f]["timeout"] < MaxTimeouts
        /\ heap' = [heap EXCEPT ![f]["timeout"] = @ + 1]
    /\ UNCHANGED <<client_stats, active_client_id, clock, returned>>
    /\ UNCHANGED <<codecVars, serverVars, factoryVars, clientVars, lockVars>>

\* Time passes.
Tick ==
    /\ clock < MaxClock
    /\ clock' = clock + 1
    /\ UNCHANGED <<heap, client_stats, active_client_id, returned>>
    /\ UNCHANGED <<codecVars, serverVars, factoryVars, clientVars, lockVars>>

\* A caller's get_client_stats()
GetClientStats ==
    /\ Len(returned) < MaxSnapshots
    /\ \E r \in {get_client_stats(heap, client_stats, clock)} :
        /\ heap' = r.heap
        /\ returned' = Append(returned, r.result)
    /\ UNCHANGED <<client_stats, active_client_id, clock>>
    /\ UNCHANGED <<codecVars, serverVars, factoryVars, clientVars, lockVars>>

\* What a caller does to a record it was returned
CallerEdits == {"counter", "state", "failures"}

\* The number a caller's edit leaves in the dict it changes
EditedCount == 99

\* the edits of the callers
MaxEdits == 1

\* The edits the callers have made to the records they were returned.
EditsDone ==
    LET marks(a) == (IF heap[a].messages_in = EditedCount THEN 1 ELSE 0)
                    + (IF heap[a].total_connected_duration = EditedCount THEN 1 ELSE 0)
                    + (IF heap[heap[a].failures]["timeout"] = EditedCount THEN 1 ELSE 0)
        sum[i \in 0..Len(returned)] ==
            IF i = 0 THEN 0
            ELSE sum[i - 1]
                 + (IF 1 \in DOMAIN returned[i].clients THEN marks(returned[i].clients[1]) ELSE 0)
                 + (IF 2 \in DOMAIN returned[i].clients THEN marks(returned[i].clients[2]) ELSE 0)
    IN  sum[Len(returned)]

\* A caller changes a record of the structure its i-th call returned: a
\* counter, the connection state and the duration, or a counter of failures.
CallerMutates(i, id, edit) ==
    /\ i \in 1..Len(returned) /\ id \in DOMAIN returned[i].clients
    /\ EditsDone < MaxEdits
    /\ \E a \in {returned[i].clients[id]} :
        CASE edit = "counter" ->
                /\ heap[a].messages_in # EditedCount
                /\ heap' = [heap EXCEPT ![a].messages_in = EditedCount]
          [] edit = "state" ->
                /\ heap[a].total_connected_duration # EditedCount
                /\ heap' = [heap EXCEPT ![a].connected = FALSE,
                                        ![a].total_connected_duration = EditedCount]
          [] edit = "failures" ->
                /\ heap[heap[a].failures]["timeout"] # EditedCount
                /\ heap' = [heap EXCEPT ![heap[a].failures]["timeout"] = EditedCount]
    /\ UNCHANGED <<client_stats, active_client_id, clock, returned>>
    /\ UNCHANGED <<codecVars, serverVars, factoryVars, clientVars, lockVars>>

\* A ThreadedServer's statistics through its sessions, and the callers of
\* get_client_stats().
NextSnapshot ==
    \/ \E c \in Clients : NoteConnect(c)
    \/ NoteDisconnect
    \/ NoteMessageIn
    \/ NoteFailure
    \/ Tick
    \/ GetClientStats
    \/ \E i \in 1..MaxSnapshots, id \in Clients, edit \in CallerEdits : CallerMutates(i, id, edit)

InitSnapshot == CodecIdle /\ raw = FALSE /\ ServerIdle /\ FactoryIdle /\ ClientIdle /\ HeapIdle /\ LocksIdle

SpecSnapshot == InitSnapshot /\ [][NextSnapshot]_vars

\* The records the server keeps, read through
Stored == [id \in DOMAIN client_stats |-> Load(heap, client_stats[id])]

\* The records of the structure the i-th call returned, read through
SnapshotOf(h, rs, i) == [id \in DOMAIN rs[i].clients |-> Load(h, rs[i].clients[id])]

Snapshot(i) == SnapshotOf(heap, returned, i)

\* What a snapshot taken now shows: the counters, the failures and the state
\* of every record kept, the time connected so far, and the total with it.
SnapshotExpected ==
    [id \in DOMAIN client_stats |->
        LET rec == Load(heap, client_stats[id])
            sofar == IF rec.connected THEN clock - rec._connected_since ELSE 0
        IN  [client_id |-> rec.client_id, connected |-> rec.connected, connects |-> rec.connects,
             disconnects |-> rec.disconnects, messages_in |-> rec.messages_in,
             messages_out |-> rec.messages_out, bytes_in |-> rec.bytes_in, bytes_out |-> rec.bytes_out,
             failures |-> rec.failures, last_connect_ts |-> rec.last_connect_ts,
             last_disconnect_ts |-> rec.last_disconnect_ts, last_message_ts |-> rec.last_message_ts,
             avg_payload_in |-> IF rec.messages_in = 0 THEN 0 ELSE MessageSize,
             avg_payload_out |-> 0,
             connected_duration |-> sofar,
             total_connected_duration |-> rec.total_connected_duration + sofar]]

\* C24: a step that adds a snapshot or changes one that was returned leaves
\* every record the server keeps as it was; the total_connected_duration
\* kept for a client changes only when the client disconnects; and a
\* snapshot, when it is returned, shows the records kept at that time,
\* whatever the callers did to the snapshots returned before.
SnapshotLeavesRecords ==
    [][/\ (Len(returned') > Len(returned)
              \/ \E i \in 1..Len(returned) : Snapshot(i)' # Snapshot(i)) =>
            /\ Stored' = Stored
            /\ client_stats' = client_stats /\ active_client_id' = active_client_id
       /\ \A id \in DOMAIN client_stats :
            Stored'[id].total_connected_duration # Stored[id].total_connected_duration =>
                Stored[id].connected /\ ~Stored'[id].connected
       /\ Len(returned') > Len(returned) =>
            /\ SnapshotOf(heap', returned', Len(returned')) = SnapshotExpected
            /\ returned'[Len(returned')].connected_clients =
                    Cardinality({id \in DOMAIN Stored : Stored[id].connected})]_vars

\* The caller changed the failures of the first snapshot of a connected
\* client; the second snapshot, taken later, shows what the server keeps,
\* and the time connected so far.
SnapshotLeavesRecordsWitness ==
    /\ Len(returned) = 2
    /\ DOMAIN returned[1].clients = {1} /\ DOMAIN returned[2].clients = {1}
    /\ Snapshot(1)[1].failures["timeout"] = EditedCount
    /\ Stored[1].connected /\ Stored[1].failures["timeout"] = 1
    /\ Stored[1].total_connected_duration = 0
    /\ Snapshot(2)[1].connected /\ Snapshot(2)[1].failures["timeout"] = 1
    /\ Snapshot(2)[1].total_connected_duration = 1
    /\ returned[2].connected_clients = 1

(***************************************************************************)
(* A factory server that is not stopped, its workers answering, and        *)
(* clients that write up to MaxWrites times: whole frames, frames that are *)
(* not JSON, parts of a header.                                            *)
(***************************************************************************)
NextWorkers ==
    \/ FactoryStart
    \/ FactoryRunEnter
    \/ FactoryOuter
    \/ FactoryInner
    \/ FactoryWaitForAccept
    \/ FactoryAccept
    \/ FactoryCheck
    \/ FactorySpawn(FALSE)
    \/ FactoryAppend
    \/ \E c \in Clients, h \in HandlerOutcomes : WorkerRun(c, h)
    \/ \E c \in Clients : ClientConnect(c)
    \/ \E c \in Clients, bs \in ClientWrites : ClientWrite(c, bs)
    \/ \E c \in Clients : ClientClose(c)

SpecWorkers == InitFactory /\ [][NextWorkers]_vars

\* The worker of client c takes a turn of its loop: it runs, it has not
\* been told to stop, and its statistics or its thread change.
IsWorkerTurn(c) == wk[c].pc = "run" /\ wk[c].is_alive /\ wk'[c] # wk[c]

\* C31: a turn of a worker's loop whose read times out with nothing received
\* leaves the worker running and its connection open; a turn that meets a
\* framing fault, a connection the peer closed, a handler error or a send
\* failure ends the worker, and nothing else does while it is not told to
\* stop.  A worker that has ended reads no byte, counts no message and
\* writes no reply.
WorkerEndsAtFirstFault ==
    [][\A c \in Clients :
        /\ IsWorkerTurn(c) =>
            \E r \in {read_obj(chan[c].c2s, ~chan[c].open, DEFAULT_MAX_MESSAGE_SIZE)},
               id \in {_get_active_client_id(wk[c].o)} :
                LET fatal == \/ r.kind \in {"framing", "broken"}
                             \/ wk'[c].o.stats[id].failures["handler"] > wk[c].o.stats[id].failures["handler"]
                             \/ wk'[c].o.stats[id].failures["bad_write"] > wk[c].o.stats[id].failures["bad_write"]
                IN  /\ r.kind = "timeout" => Thread_is_alive(wk'[c]) /\ wk'[c].is_alive /\ sock_open'[c]
                    /\ fatal <=> ~Thread_is_alive(wk'[c])
                    /\ fatal => ~sock_open'[c]
        /\ wk[c].pc = "dead" =>
            /\ wk'[c].pc = "dead" /\ wk'[c].o = wk[c].o
            /\ chan'[c].s2c = chan[c].s2c
            /\ Len(chan'[c].c2s) >= Len(chan[c].c2s)
            /\ ~sock_open'[c]]_vars

\* The first worker ended at a frame that is not JSON; the frame its client
\* wrote afterwards stays unread and unanswered.  The second worker went on
\* after a read timeout.
WorkerEndsAtFirstFaultWitness ==
    /\ wk[1].pc = "dead"
    /\ wk[1].o.stats[1].failures["invalid_json"] = 1
    /\ wk[1].o.stats[1].messages_in = 0
    /\ chan[1].writes = 2 /\ chan[1].s2c = <<>>
    /\ chan[1].c2s = FrameOf(Payload(EchoValue))
    /\ Thread_is_alive(wk[2]) /\ sock_open[2]
    /\ wk[2].o.stats[2].failures["timeout"] = 1

\* C32: a worker whose run() has returned, whatever ended its loop, holds no
\* open socket, and every record of its statistics is disconnected, with as
\* many disconnects as connects.
TerminatedWorkerClosed ==
    \A c \in Clients :
        wk[c].pc = "dead" =>
            /\ ~sock_open[c]
            /\ ~wk[c].is_alive
            /\ \A id \in DOMAIN wk[c].o.stats :
                /\ ~wk[c].o.stats[id].connected
                /\ wk[c].o.stats[id].disconnects = wk[c].o.stats[id].connects

\* A worker ended by force_stop(), its client still connected: no failure
\* is counted, the disconnect is, and the socket is closed.
TerminatedWorkerClosedWitness ==
    /\ wk[1].pc = "dead"
    /\ chan[1].open /\ chan[1].st = "accepted"
    /\ ~sock_open[1]
    /\ wk[1].o.stats[1].connects = 1 /\ wk[1].o.stats[1].disconnects = 1
    /\ FailureTotal(wk[1].o, 1) = 0
    /\ ~is_alive

\* C33: once a worker has been given the socket accepted from client c, the
\* server's conn is its listening socket and the server is not connected;
\* no step of the server thread, close() included, closes the socket of a
\* worker; and a socket accepted from a client is closed either by the
\* server thread, before any worker has it, or by its worker, as it ends.
HandoffTransfersOwnership ==
    [][\A c \in Clients :
        /\ wk'[c].pc # "none" => conn' # c /\ ~_is_connected(conn', sock_open')
        /\ srv_pc' # srv_pc /\ wk[c].pc # "none" => sock_open'[c] = sock_open[c]
        /\ sock_open[c] /\ ~sock_open'[c] =>
            \/ wk[c].pc = "run" /\ wk'[c].pc = "dead" /\ srv_pc' = srv_pc
            \/ wk[c].pc = "none" /\ wk'[c].pc = "none" /\ fac.accepted = c /\ srv_pc' # srv_pc
        /\ ~sock_open[c] /\ sock_open'[c] => fac'.accepted = c /\ wk[c].pc = "none"]_vars

\* Both clients have been handed to workers that hold their sockets open,
\* and the server waits for the next client, its conn the listening socket.
HandoffTransfersOwnershipWitness ==
    /\ Thread_is_alive(wk[1]) /\ sock_open[1]
    /\ Thread_is_alive(wk[2]) /\ sock_open[2]
    /\ threads = <<1, 2>>
    /\ conn = 0 /\ sock_open[0]
    /\ srv_pc = "f_select" /\ is_alive

\* C34: when the worker for an accepted socket cannot be made, given the
\* socket or started, the server closes the socket, adds no worker to its
\* list and is not connected; its inner loop then accepts again if the
\* server is running and is left if it is stopping.  An accepted socket is
\* open only while the server thread has it in hand or a started worker
\* that has not ended owns it.
HandoffFailureClosesSocket ==
    [][/\ srv_pc = "f_spawn" /\ srv_pc' = "f_inner" =>
            /\ sock_open[fac.accepted] /\ ~sock_open'[fac.accepted]
            /\ threads' = threads /\ wk' = wk
            /\ fac'.accepted = NoClient
            /\ ~_is_connected(conn', sock_open')
            /\ sock_open'[0] = sock_open[0] /\ lsn' = lsn /\ is_alive' = is_alive
       /\ srv_pc = "f_inner" /\ srv_pc' # srv_pc =>
            srv_pc' = IF is_alive THEN "f_accept" ELSE "f_outer"
       /\ \A c \in Clients :
            sock_open'[c] => Thread_is_alive(wk'[c]) \/ fac'.accepted = c]_vars

\* No worker could be made for the first client: its socket is closed and
\* no worker is listed for it.  The server went on, and the second client
\* has a worker.
HandoffFailureClosesSocketWitness ==
    /\ is_alive /\ ctl.pc = "idle" /\ ctl.stops = 0
    /\ chan[1].st = "accepted" /\ wk[1].pc = "none" /\ ~sock_open[1]
    /\ Thread_is_alive(wk[2]) /\ sock_open[2]
    /\ threads = <<2>>

(***************************************************************************)
(* Servers whose accept may fail.  socket.accept() raises either with the  *)
(* connection gone from the backlog (its client had closed it: the         *)
(* connection was aborted) or with the connection still waiting (the       *)
(* process has no descriptor left).                                        *)
(***************************************************************************)
\* What the failed accept leaves of the listening socket and of the clients
AcceptFailed(gone) ==
    /\ lsn.backlog # <<>>
    /\ IF gone
       THEN /\ ~chan[Head(lsn.backlog)].open
            /\ lsn' = [lsn EXCEPT !.backlog = Tail(@)]
            /\ chan' = [chan EXCEPT ![Head(lsn.backlog)].st = "reset"]
       ELSE UNCHANGED <<lsn, chan>>

\* A faulty _accept_client(): an accept error stops the server.
AcceptErrorStops(gone) ==
    /\ srv_pc = "select"
    /\ wake.bytes = 0
    /\ AcceptFailed(gone)
    /\ is_alive' = FALSE
    /\ srv_pc' = "loop"
    /\ UNCHANGED <<conn, sock_open, wake, ctl, srv_stats>>
    /\ UNCHANGED <<codecVars, factoryVars, clientVars, heapVars, lockVars>>

\* _accept_client(), accept_connection() raising: False is returned; if the
\* server is stopping, after "self._is_alive = False".
AcceptError(gone) ==
    /\ srv_pc = "select"
    /\ wake.bytes = 0
    /\ AcceptFailed(gone)
    /\ is_alive' = (IF is_alive THEN is_alive ELSE FALSE)
    /\ srv_pc' = "loop"
    /\ UNCHANGED <<conn, sock_open, wake, ctl, srv_stats>>
    /\ UNCHANGED <<codecVars, factoryVars, clientVars, heapVars, lockVars>>

\* ServerFactory.run(), accept_connection() raising: "continue"
FactoryAcceptError(gone) ==
    /\ srv_pc = "f_select"
    /\ wake.bytes = 0
    /\ AcceptFailed(gone)
    /\ srv_pc' = "f_inner"
    /\ UNCHANGED <<is_alive, conn, sock_open, wake, ctl, srv_stats, factoryVars>>
    /\ UNCHANGED <<codecVars, clientVars, heapVars, lockVars>>

EchoOutcomes == {"echo"}

NextAcceptErrors ==
    \/ Start
    \/ StopFlag
    \/ StopSignal
    \/ RunEnter
    \/ RunLoop
    \/ WaitForAccept
    \/ SelectWake
    \/ AcceptClient
    \/ \E gone \in BOOLEAN : AcceptError(gone)
    \/ \E h \in EchoOutcomes : HandleClientMessages(h)
    \/ RunClose
    \/ FactoryStart
    \/ FactoryStopFlag
    \/ Stopper
    \/ FactoryThread
    \/ \E gone \in BOOLEAN : FactoryAcceptError(gone)
    \/ \E c \in Clients, h \in EchoOutcomes : WorkerRun(c, h)
    \/ \E c \in Clients : ClientConnect(c)
    \/ \E c \in Clients : WorkerClientWrite(c, FrameOf(Payload(EchoValue)))
    \/ \E c \in Clients : ClientClose(c)

SpecAcceptErrors == InitServer /\ [][NextAcceptErrors]_vars

\* C35: a step in which accept raises leaves the running flag, the sockets,
\* the statistics and the workers as they were; the loop of a running
\* server then goes back to waiting for a client, and the loop of a server
\* that is stopping is left.
AcceptErrorLeavesServerUp ==
    [][/\ srv_pc = "select" /\ srv_pc' = "loop" /\ wake' = wake =>
            /\ is_alive' = is_alive
            /\ sock_open' = sock_open /\ conn' = conn /\ lsn'.listening
            /\ srv_stats' = srv_stats
       /\ srv_pc = "loop" /\ srv_pc' # srv_pc =>
            srv_pc' = IF is_alive THEN "accept" ELSE "close"
       /\ srv_pc = "f_select" /\ srv_pc' = "f_inner" /\ wake' = wake =>
            /\ is_alive' = is_alive
            /\ sock_open' = sock_open /\ conn' = conn /\ lsn'.listening
            /\ threads' = threads /\ wk' = wk /\ fac' = fac
       /\ srv_pc = "f_inner" /\ srv_pc' # srv_pc =>
            srv_pc' = IF is_alive THEN "f_accept" ELSE "f_outer"]_vars

\* The accept of the first client's connection failed; the single-connection
\* server, still running, has accepted the second client and answered its
\* request.
AcceptErrorLeavesServerUpWitness ==
    /\ is_alive /\ ctl.pc = "idle" /\ ctl.stops = 0
    /\ chan[1].st = "reset"
    /\ srv_pc = "session" /\ conn = 2
    /\ srv_stats.stats[2].messages_out = 1
    /\ chan[2].s2c = FrameOf(Payload(EchoValue))

\* The stored records of o that are connected
ConnectedRecords(o) == {id \in DOMAIN o.stats : o.stats[id].connected}

\* C36: a server that hands no connection to a worker has at most one
\* accepted socket open, the one its conn refers to; at most one of its
\* records is connected, that of the active client of the session under
\* way; and its snapshot reports at most one connected client.
OneActiveConnection ==
    /\ ((\A c \in Clients : wk[c].pc = "none") /\ fac.accepted = NoClient) =>
            /\ Cardinality({c \in Clients : sock_open[c]}) <= 1
            /\ \A c \in Clients : sock_open[c] => conn = c
    /\ Cardinality(ConnectedRecords(srv_stats)) <= 1
    /\ \A id \in ConnectedRecords(srv_stats) :
            srv_pc = "session" /\ id = _get_active_client_id(srv_stats)
    /\ ThreadedServer_get_client_stats(srv_stats).connected_clients <= 1

\* The first client's session is over and its record kept; the second
\* client is being served, the only one connected.
OneActiveConnectionWitness ==
    /\ srv_pc = "session" /\ conn = 2 /\ sock_open[2] /\ ~sock_open[1]
    /\ Cardinality(DOMAIN srv_stats.stats) = 2
    /\ Cardinality(ConnectedRecords(srv_stats)) = 1
    /\ srv_stats.stats[_get_active_client_id(srv_stats)].messages_in = 1
    /\ ThreadedServer_get_client_stats(srv_stats).connected_clients = 1

(***************************************************************************)
(* The records of a single-connection server with their keys of time,      *)
(* through sessions: a client connects, its messages may name it "A" or    *)
(* "B", and the session ends.                                              *)
(***************************************************************************)
\* _new_client_stats(client_id), its keys of time included
TimedNewClientStats(client_id) ==
    _new_client_stats(client_id)
    @@ [total_connected_duration |-> 0, last_connect_ts |-> NoTime, last_disconnect_ts |-> NoTime,
        last_message_ts |-> NoTime, _connected_since |-> NoTime]

\* _note_connect(obj, client_id) at the time now
TimedNoteConnect(o, client_id, now) ==
    Bind(IF client_id \in DOMAIN o.stats THEN o.stats
         ELSE o.stats @@ (client_id :> TimedNewClientStats(client_id)), LAMBDA m :
        [o EXCEPT !.stats = [m EXCEPT ![client_id].connected = TRUE,
                                      ![client_id].connects = @ + 1,
                                      ![client_id].last_connect_ts = now,
                                      ![client_id]._connected_since = IF @ = NoTime THEN now ELSE @],
                  !.active = client_id])

\* A faulty _note_disconnect: _connected_since is kept.
TimedNoteDisconnectKeepsSince(o, now) ==
    Bind(_get_active_client_id(o), LAMBDA id :
        IF id = NoClient \/ id \notin DOMAIN o.stats \/ ~o.stats[id].connected THEN o
        ELSE [o EXCEPT !.stats[id].connected = FALSE,
                       !.stats[id].disconnects = @ + 1,
                       !.active = NoClient])

\* _note_disconnect(obj) at the time now
TimedNoteDisconnect(o, now) ==
    Bind(_get_active_client_id(o), LAMBDA id :
        IF id = NoClient THEN o
        ELSE Bind(IF id \in DOMAIN o.stats THEN o.stats
                  ELSE o.stats @@ (id :> TimedNewClientStats(id)), LAMBDA m :
            IF ~m[id].connected THEN [o EXCEPT !.stats = m]
            ELSE [o EXCEPT !.stats = [m EXCEPT
                                ![id].connected = FALSE,
                                ![id].disconnects = @ + 1,
                                ![id].last_disconnect_ts = now,
                                ![id].total_connected_duration =
                                    IF m[id]._connected_since # NoTime
                                    THEN @ + (now - m[id]._connected_since) ELSE @,
                                ![id]._connected_since = NoTime],
                           !.active = NoClient]))

\* The sessions the server has had: the connects of its records.
SessionsOf(o) ==
    LET RECURSIVE total(_)
        total(ids) == IF ids = {} THEN 0
                      ELSE LET id == CHOOSE x \in ids : TRUE
                           IN  o.stats[id].connects + total(ids \ {id})
    IN  total(DOMAIN o.stats)

\* _record_client_start(), client c accepted
SessionStart(c) ==
    /\ _get_active_client_id(srv_stats) = NoClient
    /\ SessionsOf(srv_stats) < MaxSessions
    /\ srv_stats' = TimedNoteConnect([srv_stats EXCEPT !.cid = c], c, clock)
    /\ UNCHANGED <<is_alive, srv_pc, conn, sock_open, lsn, wake, chan, ctl>>
    /\ UNCHANGED <<codecVars, factoryVars, clientVars, heapVars, lockVars>>

\* A message of the session names its client.
SessionIdentity(new_client_id) ==
    /\ _get_active_client_id(srv_stats) # NoClient
    /\ SetClientIdentity(new_client_id)

\* The end of _handle_client_messages(): _note_disconnect(), then
\* _clear_client_stats()
SessionEnd ==
    /\ _get_active_client_id(srv_stats) # NoClient
    /\ srv_stats' = _clear_client_stats(TimedNoteDisconnect(srv_stats, clock))
    /\ UNCHANGED <<is_alive, srv_pc, conn, sock_open, lsn, wake, chan, ctl>>
    /\ UNCHANGED <<codecVars, factoryVars, clientVars, heapVars, lockVars>>

\* Time passes between the events of a server.
SessionTick ==
    /\ clock < MaxClock
    /\ clock' = clock + 1
    /\ UNCHANGED <<heap, client_stats, active_client_id, returned>>
    /\ UNCHANGED <<codecVars, serverVars, factoryVars, clientVars, lockVars>>

NextLifecycle ==
    \/ \E c \in Clients : SessionStart(c)
    \/ \E new_client_id \in {NameA, NameB} : SessionIdentity(new_client_id)
    \/ SessionEnd
    \/ SessionTick

SpecLifecycle == InitServer /\ [][NextLifecycle]_vars

\* C37: in every record kept, a connected client has a _connected_since and
\* a client that is not connected has none; no record has more disconnects
\* than connects.
ConnectedHasSince ==
    \A id \in DOMAIN srv_stats.stats :
        /\ srv_stats.stats[id].connected <=> srv_stats.stats[id]._connected_since # NoTime
        /\ srv_stats.stats[id].disconnects <= srv_stats.stats[id].connects

\* The record of "A" holds two sessions, the second under way: it is
\* connected since the second connect, and a disconnect is recorded.
ConnectedHasSinceWitness ==
    /\ DOMAIN srv_stats.stats = {NameA}
    /\ srv_stats.stats[NameA].connected
    /\ srv_stats.stats[NameA].connects = 2 /\ srv_stats.stats[NameA].disconnects = 1
    /\ srv_stats.stats[NameA]._connected_since = 2
    /\ srv_stats.stats[NameA].last_disconnect_ts = 2
    /\ srv_stats.stats[NameA].total_connected_duration = 1

(***************************************************************************)
(* The records of a factory server's workers with their keys of time, and  *)
(* the archive they end in: clients are handed to workers, name            *)
(* themselves "A" or "B", their workers end and are purged.                *)
(***************************************************************************)
\* _note_message_in(obj, size) at the time now
TimedNoteMessageIn(o, size, now) ==
    Bind(_get_active_client_id(o), LAMBDA id :
        IF id = NoClient THEN o
        ELSE Bind(IF id \in DOMAIN o.stats THEN o.stats
                  ELSE o.stats @@ (id :> TimedNewClientStats(id)), LAMBDA m :
            [o EXCEPT !.stats = [m EXCEPT ![id].messages_in = @ + 1,
                                          ![id].bytes_in = @ + size,
                                          ![id].last_message_ts = now]]))

\* ServerFactory.run(), the hand-off of the accepted client c: swap_socket()
\* notes the connect, start() starts the worker, and it joins _threads.
TimedHandoff(c) ==
    /\ wk[c].pc = "none"
    /\ wk' = [wk EXCEPT ![c] = ServerFactoryThread_start(
                    [@ EXCEPT !.o = TimedNoteConnect([@ EXCEPT !.cid = c], c, clock)])]
    /\ threads' = Append(threads, c)
    /\ UNCHANGED fac
    /\ UNCHANGED <<codecVars, serverVars, clientVars, heapVars, lockVars>>

\* A turn of ServerFactoryThread.run() that reads a message naming the
\* client: _set_client_identity, then _note_message_in.
TimedWorkerRead(c, new_client_id) ==
    /\ wk[c].pc = "run"
    /\ TotalOf(wk[c].o.stats, "messages_in") < MaxMessages
    /\ wk' = [wk EXCEPT ![c].o = TimedNoteMessageIn(_set_client_identity(@, new_client_id), MessageSize, clock)]
    /\ UNCHANGED <<threads, fac>>
    /\ UNCHANGED <<codecVars, serverVars, clientVars, heapVars, lockVars>>

\* The end of ServerFactoryThread.run(): _note_disconnect(), and the thread
\* is over.
TimedWorkerEnd(c) ==
    /\ wk[c].pc = "run"
    /\ wk' = [wk EXCEPT ![c] = [@ EXCEPT !.pc = "dead", !.is_alive = FALSE,
                                         !.o = TimedNoteDisconnect(@, clock)]]
    /\ UNCHANGED <<threads, fac>>
    /\ UNCHANGED <<codecVars, serverVars, clientVars, heapVars, lockVars>>

\* _purge_threads(): the workers that are over leave _threads and are
\* archived.
TimedPurge ==
    /\ \E i \in 1..Len(threads) : ~Thread_is_alive(wk[threads[i]])
    /\ threads' = _purge_threads(threads, wk)
    /\ fac' = [fac EXCEPT !.archive = ArchiveDead(@, threads, wk)]
    /\ wk' = MarkArchived(threads, wk)
    /\ UNCHANGED <<codecVars, serverVars, clientVars, heapVars, lockVars>>

NextTimedArchive ==
    \/ \E c \in Clients : TimedHandoff(c)
    \/ \E c \in Clients, new_client_id \in {NameA, NameB} : TimedWorkerRead(c, new_client_id)
    \/ \E c \in Clients : TimedWorkerEnd(c)
    \/ TimedPurge
    \/ SessionTick

SpecTimedArchive == InitFactory /\ [][NextTimedArchive]_vars

\* C38: every record of the factory server's archive has connected = False
\* and _connected_since = None, when a worker's record has just been
\* archived and after a later worker's record has been merged into it.
ArchiveDisconnected ==
    \A id \in DOMAIN fac.archive :
        /\ ~fac.archive[id].connected
        /\ fac.archive[id]._connected_since = NoTime

\* Two workers have served clients that named themselves "A", the second
\* one later than the first: the archive's record of "A" holds both.
ArchiveDisconnectedWitness ==
    /\ DOMAIN fac.archive = {NameA}
    /\ wk[1].archived /\ wk[2].archived
    /\ fac.archive[NameA].connects = 2 /\ fac.archive[NameA].disconnects = 2
    /\ fac.archive[NameA].messages_in = 2
    /\ fac.archive[NameA].last_connect_ts = 2
    /\ fac.archive[NameA].total_connected_duration = 1

(***************************************************************************)
(* The locks.  Each thread's code is written down as its statements that   *)
(* take or give back a lock, touch the worker list or a record, or block;  *)
(* a statement names the statements that can follow it, by their distance. *)
(* A lock is a class ("threads", "stats", "worker"): a worker's own        *)
(* _stats_lock for a worker, any worker's for another thread.              *)
(***************************************************************************)
St(op, arg, next) == [op |-> op, arg |-> arg, next |-> next]

\* "with _stats_guard(obj):" around the reading or the changing of records
Guarded(lock, next) ==
    <<St("acquire", lock, {1}), St("record", lock, {1}), St("release", lock, next)>>

\* "with self._threads_lock:" around a statement on self._threads
Listed(next) ==
    <<St("acquire", "threads", {1}), St("list", "threads", {1}), St("release", "threads", next)>>

\* _archive_thread_stats(thread): _stats_from_thread() clones the worker's
\* records under the worker's lock, then the archive is changed under the
\* server's.
_archive_thread_statsSteps(next) == Guarded("worker", {1}) \o Guarded("stats", next)

\* _purge_threads(): the list is rebuilt under the lock; then "for t in
\* dead", if there is one.
_purge_threadsSteps == Listed({1, 7}) \o _archive_thread_statsSteps({1, 0 - 5})

\* A faulty stop_all: the workers are stopped and joined with the lock held.
stop_allJoinsLocked ==
    <<St("acquire", "threads", {1}), St("list", "threads", {1}),
      St("call", "force_stop", {1}), St("block", "join", {1, 0 - 1}),
      St("release", "threads", {1, 11})>>
    \o _purge_threadsSteps \o <<St("call", "while True", {0 - 14})>>

\* stop_all(): "while True": the live workers are listed under the lock;
\* none: break; each is stopped and joined; _purge_threads().
stop_allSteps ==
    Listed({1, 13})
    \o <<St("call", "force_stop", {1}), St("block", "join", {1, 0 - 1})>>
    \o _purge_threadsSteps \o <<St("call", "while True", {0 - 14})>>

\* ServerFactory.stop(): _is_alive = False, _signal_wakeup() (a send on
\* the wake-up socket), stop_all()
ServerFactory_stopSteps ==
    <<St("call", "_is_alive = False", {1}), St("block", "send", {1})>> \o stop_allSteps

\* ServerFactory.get_client_stats(): the list is copied; the finished
\* workers are archived; the archive is cloned; the records of each live
\* worker are cloned under its lock; the call returns (and is made again).
ServerFactory_get_client_statsSteps ==
    Listed({1, 7}) \o _archive_thread_statsSteps({1, 0 - 5})
    \o Guarded("stats", {1, 4}) \o Guarded("worker", {1, 0 - 2})
    \o <<St("call", "return", {0 - 15})>>

\* ServerFactory.run(): _purge_threads(); select and accept; swap_socket()
\* notes the connect in the worker's records; start(); the worker joins
\* the list under the lock; when the server stops, _wait_to_exit() counts
\* the live workers under the lock and sleeps; close().
ServerFactory_runSteps ==
    _purge_threadsSteps
    \o <<St("block", "select", {0, 1, 9}), St("block", "accept", {0 - 1, 1, 8})>>
    \o Guarded("worker", {1})
    \o <<St("call", "start", {1})>>
    \o Listed({0 - 17})
    \o Listed({1, 2})
    \o <<St("block", "sleep", {0 - 3}), St("call", "close", {1})>>

\* ServerFactoryThread.run(): read_obj(); a fault is noted, and the loop
\* goes on or breaks; the client's identity and the message are noted;
\* the handler; send_obj(); the reply is noted; at the end
\* _note_disconnect(), the socket is closed.
ServerFactoryThread_runSteps ==
    <<St("block", "recv", {1, 4, 7, 15})>>
    \o Guarded("worker", {0 - 3, 12})
    \o Guarded("worker", {1})
    \o Guarded("worker", {1})
    \o <<St("call", "_process_message", {1, 0 - 9, 0 - 10}), St("block", "send", {1, 0 - 10})>>
    \o Guarded("worker", {0 - 14, 1})
    \o Guarded("worker", {1})
    \o <<St("call", "close", {1})>>

\* ThreadedServer.run(): select and accept; _record_client_start() and
\* _note_connect(); the message loop as a worker's, on the server's
\* records, a break coming after _close_connection(); _note_disconnect()
\* and _clear_client_stats(); at the end close().
ThreadedServer_runSteps ==
    <<St("block", "select", {0, 1, 30}), St("block", "accept", {0 - 1, 1})>>
    \o Guarded("stats", {1})
    \o Guarded("stats", {1})
    \o <<St("block", "recv", {1, 4, 7, 15})>>
    \o Guarded("stats", {0 - 3, 12})
    \o Guarded("stats", {1})
    \o Guarded("stats", {1})
    \o <<St("call", "_process_message", {1, 0 - 9, 0 - 10}), St("block", "send", {1, 0 - 10})>>
    \o Guarded("stats", {0 - 14, 2})
    \o <<St("call", "_close_connection", {1})>>
    \o Guarded("stats", {1})
    \o Guarded("stats", {0 - 29, 1})
    \o <<St("call", "close", {1})>>

\* ThreadedServer.stop(): _is_alive = False, _signal_wakeup()
ThreadedServer_stopSteps ==
    <<St("call", "_is_alive = False", {1}), St("block", "send", {1})>>

\* ThreadedServer.get_client_stats(): the records are cloned under the
\* lock; the call returns (and is made again).
ThreadedServer_get_client_statsSteps ==
    Guarded("stats", {1}) \o <<St("call", "return", {0 - 3})>>

\* The statements of a thread
Program(t) ==
    CASE t.kind = "factory" -> ServerFactory_runSteps
      [] t.kind = "owner" -> ServerFactory_stopSteps
      [] t.kind = "caller" -> ServerFactory_get_client_statsSteps
      [] t.kind = "worker" -> ServerFactoryThread_runSteps
      [] t.kind = "server" -> ThreadedServer_runSteps
      [] t.kind = "stopper" -> ThreadedServer_stopSteps
      [] t.kind = "reader" -> ThreadedServer_get_client_statsSteps

\* The thread is at a statement: it has started and has not finished.
Running(t) == stmt_at[t] >= 1 /\ stmt_at[t] <= Len(Program(t))

\* The statement the running thread t is at
StmtOf(t) == Program(t)[stmt_at[t]]

\* The locks a statement of t names by the class lock
LocksNamed(t, lock) ==
    IF lock = "worker"
    THEN {l \in LockIds : l.kind = "worker" /\ (t.kind = "worker" => l = t)}
    ELSE {l \in LockIds : l.kind = lock}

\* The locks the thread holds
HeldBy(t) == {l \in LockIds : held_by[l] = t}

\* The thread goes on to one of the statements that follow.
GoesOn(t) == \E d \in StmtOf(t).next : stmt_at' = [stmt_at EXCEPT ![t] = @ + d]

\* Lock.acquire(): the thread waits until the lock is free and takes it.
Acquire(t) ==
    /\ Running(t) /\ StmtOf(t).op = "acquire"
    /\ \E l \in LocksNamed(t, StmtOf(t).arg) :
        /\ held_by[l] = NoThread
        /\ held_by' = [held_by EXCEPT ![l] = t]
    /\ GoesOn(t)
    /\ UNCHANGED <<codecVars, serverVars, factoryVars, clientVars, heapVars>>

\* Lock.release(), at the end of a with block
Release(t) ==
    /\ Running(t) /\ StmtOf(t).op = "release"
    /\ held_by' = [l \in LockIds |->
                    IF held_by[l] = t /\ l \in LocksNamed(t, StmtOf(t).arg) THEN NoThread ELSE held_by[l]]
    /\ GoesOn(t)
    /\ UNCHANGED <<codecVars, serverVars, factoryVars, clientVars, heapVars>>

\* A statement that neither blocks nor takes a lock
Statement(t) ==
    /\ Running(t) /\ StmtOf(t).op \in {"list", "record", "call"}
    /\ GoesOn(t)
    /\ UNCHANGED held_by
    /\ UNCHANGED <<codecVars, serverVars, factoryVars, clientVars, heapVars>>

\* A blocking call returns: accept, select, send, recv, join, sleep.
Blocking(t) ==
    /\ Running(t) /\ StmtOf(t).op = "block"
    /\ GoesOn(t)
    /\ UNCHANGED held_by
    /\ UNCHANGED <<codecVars, serverVars, factoryVars, clientVars, heapVars>>

\* The threads of a factory server start, or those of a single-connection
\* server.
ThreadsStart(ts) ==
    /\ \A t \in LockThreads : stmt_at[t] = 0
    /\ stmt_at' = [t \in LockThreads |-> IF t \in ts THEN 1 ELSE 0]
    /\ UNCHANGED held_by
    /\ UNCHANGED <<codecVars, serverVars, factoryVars, clientVars, heapVars>>

NextLocks ==
    \/ \E ts \in {FactoryThreads, ServerThreads} : ThreadsStart(ts)
    \/ \E t \in LockThreads : Acquire(t)
    \/ \E t \in LockThreads : Release(t)
    \/ \E t \in LockThreads : Statement(t)
    \/ \E t \in LockThreads : Blocking(t)

SpecLocks == InitFactory /\ [][NextLocks]_vars

\* C39: a thread that is at a blocking call (accept, select, send, recv,
\* join, sleep) holds no lock; a thread that holds _threads_lock is at a
\* statement on the list or gives the lock back, one that holds a
\* _stats_lock reads or changes records or gives the lock back; no thread
\* holds two locks.
NoBlockingUnderLock ==
    \A t \in LockThreads :
        /\ stmt_at[t] \in 0..(Len(Program(t)) + 1)
        /\ ~Running(t) => HeldBy(t) = {}
        /\ Running(t) =>
            /\ StmtOf(t).op = "block" => HeldBy(t) = {}
            /\ Cardinality(HeldBy(t)) <= 1
            /\ \A l \in HeldBy(t) :
                /\ l.kind = "threads" => StmtOf(t).op \in {"list", "release"}
                /\ l.kind \in {"stats", "worker"} => StmtOf(t).op \in {"record", "release"}
                /\ l \in LocksNamed(t, StmtOf(t).arg)

\* The owner waits in join() for a worker, which holds its own lock and
\* changes its records; the caller of get_client_stats() holds
\* _threads_lock and copies the list; the factory's thread waits in select.
NoBlockingUnderLockWitness ==
    /\ Running(Thread("owner", 0)) /\ StmtOf(Thread("owner", 0)) = St("block", "join", {1, 0 - 1})
    /\ held_by[Thread("worker", 1)] = Thread("worker", 1)
    /\ Running(Thread("worker", 1)) /\ StmtOf(Thread("worker", 1)).op = "record"
    /\ held_by[Thread("threads", 0)] = Thread("caller", 0)
    /\ StmtOf(Thread("caller", 0)).op = "list"
    /\ Running(Thread("factory", 0)) /\ StmtOf(Thread("factory", 0)).arg = "select"

\* What the workers cs have counted at key, over their records
RECURSIVE WorkersTotal(_, _)
WorkersTotal(cs, key) ==
    IF cs = {} THEN 0
    ELSE Bind(CHOOSE c \in cs : TRUE, LAMBDA c :
            TotalOf(wk[c].o.stats, key) + WorkersTotal(cs \ {c}, key))

\* The workers a snapshot of the factory counts: those get_client_stats()
\* found alive and those archived
CountedWorkers == {c \in Clients : wk[c].archived \/ \E i \in 1..Len(fac.gs.alive) : fac.gs.alive[i] = c}

\* C40: a snapshot of the factory server holds, at every counter, what the
\* workers found alive and the archived workers have counted, each worker
\* once, whatever the workers and the accept loop have done since
\* get_client_stats() looked at the list.
SnapshotCountsOnce ==
    fac.gs.pc = "combine" =>
        \A key \in CounterKeys :
            TotalOf(ServerFactory_get_client_stats(fac.archive, fac.gs.alive, wk).clients, key)
                = WorkersTotal(CountedWorkers, key)

====
